---- MODULE Spec2Model ----
(***************************************************************************)
(* Task-management service: the Redis rate limiter (RedisThrottlerStorage  *)
(* behind RateLimitGuard), the Redis cache (CacheService) in front of the  *)
(* task datastore (TasksService), the job queue consumer                   *)
(* (TaskProcessorService) and the hourly overdue scan                      *)
(* (OverdueTasksService).                                                  *)
(*                                                                         *)
(* The specifications share the module's variables:                        *)
(*   SpecRL      - the rate limiter, one Redis command per step            *)
(*   SpecRLFail  - the rate limiter over a Redis that can be unreachable   *)
(*   SpecJob     - the job queue and its consumer                          *)
(*   SpecJobLive - the same, with a worker that keeps running              *)
(*   SpecTasks   - the task service, its cache, the producers, the scan    *)
(*   SpecKv      - the task service while the cache's Redis comes and goes *)
(*   SpecConc    - the task service serving two requests at once, one      *)
(*                 await per step                                          *)
(*   SpecCache, SpecKey, SpecTracker - CacheService.set/get/del,           *)
(*                 generateCacheKey and getTracker on their own            *)
(***************************************************************************)
EXTENDS Integers, Sequences, FiniteSets, TLC

VARIABLES
    \* ---- rate limiter ----
    throttle,   \* Redis keys 'throttle:<key>': [val, pttl]; pttl -2 = no key, -1 = no expiry
    caller,     \* one record per in-flight canActivate / increment call
    win,        \* history: what happened to each key since it was last absent
    rlcfg,      \* which callers and identities take part, and the hit cap
    \* ---- datastore, cache, queue ----
    db,         \* the tasks table: id -> row, NoTask where there is no row
    dbUp,       \* whether the datastore answers
    kvUp,       \* whether the Redis behind CacheService answers
    cache,      \* Redis keys 'tasks:*': key -> [val, ttl]; DOMAIN cache = keys present
    queue,      \* the 'task-processing' queue: the jobs in the order they were added
    clock,      \* the time in seconds (stops at ClockCap, past every due date)
    resp,       \* the last request and its response (SpecConc: each request in flight)
    hist        \* history the claims read: what the datastore held, what was asked

rlVars == <<throttle, caller, win, rlcfg>>
storeVars == <<db, dbUp, kvUp, cache, clock>>
queueVars == <<queue>>
obsVars == <<resp, hist>>

vars == <<rlVars, storeVars, queueVars, obsVars>>

\* no call made yet
NoResp == [op |-> "none"]

Max(a, b) == IF a >= b THEN a ELSE b
Min(a, b) == IF a <= b THEN a ELSE b

(***************************************************************************)
(*                            RATE LIMITER                                 *)
(***************************************************************************)

\* RateLimitGuard constructor: throttlers[0].limit
limitOffByOne == 101
limit == 100

\* RateLimitGuard constructor: throttlers[0].ttl (milliseconds)
ttl == 60000

\* Bounds of the exploration.
ExtraHits == 2          \* sequential run: hits past the limit
ConcHits == 3           \* concurrent run: hits per key
TicksPerWindow == 2     \* clock granularity: ticks in one window

TickMs == ttl \div TicksPerWindow

Callers == {"c1", "c2"}
\* getTracker: 'user:<id>' for an authenticated request, else the source address
Identities == {"user:u1", "10.0.0.1"}

\* ---- RateLimitGuard.getTracker ----
\* a request as getTracker reads it: req.user?.id, req.ip and
\* req.connection.remoteAddress ("" where the request has none), and the
\* application instance that handles it
TrackerRequests ==
    [userId : {"", "u1", "u2"}, ip : {"", "10.0.0.1", "10.0.0.2"},
     remoteAddress : {"", "10.0.0.1", "10.0.0.3"}, instance : {"a", "b"}]

\* the tracker taken from the source address even for an authenticated request
GetTrackerByAddress(req) ==
    IF req.ip # "" THEN req.ip
    ELSE IF req.remoteAddress # "" THEN req.remoteAddress
    ELSE IF req.userId # "" THEN "user:" \o req.userId
    ELSE "unknown"
GetTracker(req) ==
    IF req.userId # "" THEN "user:" \o req.userId
    ELSE IF req.ip # "" THEN req.ip
    ELSE IF req.remoteAddress # "" THEN req.remoteAddress
    ELSE "unknown"

\* getTracker called for two requests
GetTrackerCall(req, other) ==
    /\ resp = NoResp
    /\ resp' = [op |-> "getTracker", req |-> req, other |-> other,
                tracker |-> GetTracker(req), otherTracker |-> GetTracker(other)]
    /\ UNCHANGED <<hist, storeVars, queueVars, rlVars>>

NoKey == [val |-> 0, pttl |-> -2]

\* INCR key: a missing key counts from 0 and is created without expiry
RedisIncr(entry) ==
    IF entry.pttl = -2 THEN [val |-> 1, pttl |-> -1]
    ELSE [entry EXCEPT !.val = entry.val + 1]

\* PTTL key: -2 no key, -1 no expiry, else the remaining milliseconds
RedisPttl(entry) == entry.pttl

\* PEXPIRE key ms (a missing key is left missing)
RedisExpireSeconds(entry, ms) ==
    IF entry.pttl = -2 THEN entry ELSE [entry EXCEPT !.pttl = ms * 1000]
RedisPexpire(entry, ms) ==
    IF entry.pttl = -2 THEN entry ELSE [entry EXCEPT !.pttl = ms]

\* the key after d milliseconds: an expiry that has run out removes the key
RedisElapse(entry, d) ==
    IF entry.pttl > 0
    THEN IF entry.pttl - d <= 0 THEN NoKey ELSE [entry EXCEPT !.pttl = entry.pttl - d]
    ELSE entry

\* increment: "If key is new (no TTL), set the TTL"
NeedsExpire(timeToExpire) == timeToExpire = -1

\* results[i][1] of a command that failed: the entry is [error], so undefined;
\* Math.max(undefined, 0) is NaN. Both compare false with every number.
Undefined == 0 - 9
NaN == 0 - 8
MathMax(a, b) == IF a = Undefined \/ b = Undefined THEN NaN ELSE Max(a, b)

\* increment's return value from the pipeline results <<INCR reply, PTTL reply>>
IncrementReturnSwapped(results, timeToExpire) ==
    [totalHits |-> results[2], timeToExpire |-> MathMax(timeToExpire, 0)]
IncrementReturn(results, timeToExpire) ==
    [totalHits |-> results[1], timeToExpire |-> MathMax(timeToExpire, 0)]

\* ThrottlerGuard.handleRequest: the request is rejected when totalHits > limit
Throttled(totalHits) == totalHits > limit

\* throwThrottlingException: the headers the guard puts on a rejected response
\* (the override runs after ThrottlerGuard has set Retry-After, and replaces it)
NoHeaders == [limit |-> "", remaining |-> "", retryAfter |-> ""]
ThrottlingHeaders == [limit |-> "100", remaining |-> "0", retryAfter |-> "60"]

IdleCaller ==
    [pc |-> "idle", key |-> "user:u1", results |-> <<0, 0>>, timeToExpire |-> 0,
     ret |-> [totalHits |-> 0, timeToExpire |-> 0], allowed |-> FALSE,
     arrival |-> 0, created |-> FALSE, inWin |-> FALSE, overlapped |-> FALSE,
     failed |-> FALSE, threw |-> FALSE, headers |-> NoHeaders]

FreshWin == [hits |-> 0, rets |-> 0, vals |-> {}]

\* Two explorations: one caller driving one counter past the limit, and all
\* callers racing on every identity for a few hits.
RLConfigs ==
    { [callers |-> {"c1"}, ids |-> {"user:u1"}, cap |-> limit + ExtraHits],
      [callers |-> Callers, ids |-> Identities, cap |-> ConcHits] }

RLStart ==
    /\ rlcfg \in RLConfigs
    /\ throttle = [k \in Identities |-> NoKey]
    /\ caller = [c \in Callers |-> IdleCaller]
    /\ win = [k \in Identities |-> FreshWin]

\* history: the other calls on key k that are between their INCR and their return
Racing(c, k) ==
    {d \in Callers \ {c} : caller[d].key = k /\ caller[d].pc \in {"pttl", "pexpire", "return"}}

\* pipeline.incr(redisKey): the first command of the pipeline
PipelineIncr(c, k) ==
    /\ c \in rlcfg.callers
    /\ k \in rlcfg.ids
    /\ caller[c].pc \in {"idle", "done"}
    /\ throttle[k].val < rlcfg.cap
    /\ LET e == RedisIncr(throttle[k]) IN
        /\ throttle' = [throttle EXCEPT ![k] = e]
        /\ win' = [win EXCEPT ![k].hits = @ + 1]
        /\ caller' = [d \in Callers |->
               IF d = c
               THEN [IdleCaller EXCEPT !.pc = "pttl", !.key = k,
                                       !.results = <<e.val, 0>>,
                                       !.arrival = win[k].hits + 1,
                                       !.created = (throttle[k].pttl = -2),
                                       !.inWin = TRUE,
                                       !.overlapped = (Racing(c, k) # {})]
               ELSE IF d \in Racing(c, k)
                    THEN [caller[d] EXCEPT !.overlapped = TRUE]
                    ELSE caller[d]]
    /\ UNCHANGED rlcfg

\* pipeline.pttl(redisKey): the second command; commands of other clients may
\* run between the two (a pipeline is not a transaction)
PipelinePttl(c) ==
    /\ caller[c].pc = "pttl"
    /\ LET t == RedisPttl(throttle[caller[c].key]) IN
        caller' = [caller EXCEPT ![c].results = <<@[1], t>>,
                                 ![c].timeToExpire = t,
                                 ![c].pc = IF NeedsExpire(t) THEN "pexpire" ELSE "return"]
    /\ UNCHANGED <<throttle, win, rlcfg>>

\* a pexpire that would put the window on every counter there is
PexpireEveryKey(c) ==
    /\ caller[c].pc = "pexpire"
    /\ throttle' = [k \in Identities |-> RedisPexpire(throttle[k], ttl)]
    /\ caller' = [caller EXCEPT ![c].timeToExpire = ttl, ![c].pc = "return"]
    /\ UNCHANGED <<win, rlcfg>>
\* await this.redis.pexpire(redisKey, ttl); timeToExpire = ttl
Pexpire(c) ==
    /\ caller[c].pc = "pexpire"
    /\ throttle' = [throttle EXCEPT ![caller[c].key] = RedisPexpire(@, ttl)]
    /\ caller' = [caller EXCEPT ![c].timeToExpire = ttl, ![c].pc = "return"]
    /\ UNCHANGED <<win, rlcfg>>

\* The store is unreachable when the pipeline is sent: ioredis fails each
\* command, and pipeline.exec() resolves with one [error] entry per command.
\* increment reads results[0][1] and results[1][1], skips the pexpire and
\* returns; the guard decides on what it returned.
PipelineExecFails(c, k) ==
    /\ c \in rlcfg.callers
    /\ k \in rlcfg.ids
    /\ caller[c].pc \in {"idle", "done"}
    /\ LET results == <<Undefined, Undefined>>
           r == IncrementReturn(results, results[2]) IN
        caller' = [caller EXCEPT ![c] =
            [IdleCaller EXCEPT !.pc = "done", !.key = k, !.results = results,
                               !.timeToExpire = results[2], !.ret = r,
                               !.allowed = ~Throttled(r.totalHits),
                               !.failed = TRUE]]
    /\ UNCHANGED <<throttle, win, rlcfg>>

\* The store is lost before the pexpire: this.redis.pexpire rejects and the
\* rejection leaves increment; the key stays without expiry.
PexpireFails(c) ==
    /\ caller[c].pc = "pexpire"
    /\ caller' = [caller EXCEPT ![c].pc = "done", ![c].failed = TRUE, ![c].threw = TRUE]
    /\ UNCHANGED <<throttle, win, rlcfg>>

\* increment returns; the guard allows or rejects the request
GuardDecide(c) ==
    /\ caller[c].pc = "return"
    /\ LET r == IncrementReturn(caller[c].results, caller[c].timeToExpire)
           k == caller[c].key IN
        /\ caller' = [caller EXCEPT ![c].ret = r,
                                    ![c].allowed = ~Throttled(r.totalHits),
                                    ![c].headers = IF Throttled(r.totalHits)
                                                   THEN ThrottlingHeaders ELSE NoHeaders,
                                    ![c].pc = "done"]
        /\ win' = IF caller[c].inWin
                  THEN [win EXCEPT ![k].rets = @ + 1, ![k].vals = @ \cup {r.totalHits}]
                  ELSE win
    /\ UNCHANGED <<throttle, rlcfg>>

\* TickMs milliseconds pass; Redis removes the keys whose expiry has run out
WindowTick ==
    /\ \E k \in Identities : throttle[k].pttl > 0
    /\ throttle' = [k \in Identities |-> RedisElapse(throttle[k], TickMs)]
    /\ win' = [k \in Identities |->
                 IF throttle'[k].pttl = -2 THEN FreshWin ELSE win[k]]
    /\ caller' = [c \in Callers |->
                 IF throttle'[caller[c].key].pttl = -2
                 THEN [caller[c] EXCEPT !.inWin = FALSE]
                 ELSE caller[c]]
    /\ UNCHANGED rlcfg

(***************************************************************************)
(*                     DATASTORE, CACHE, QUEUE                             *)
(***************************************************************************)

TaskIds == {"t1", "t2", "t3"}
Users == {"u1", "u2"}
Statuses == {"PENDING", "IN_PROGRESS", "COMPLETED"}
Priorities == {"LOW", "MEDIUM", "HIGH"}

\* a due date: a Date in the entity, an ISO string once it went through JSON
NullDate == [type |-> "null", t |-> 0]
DateAt(t) == [type |-> "Date", t |-> t]

NoTask ==
    [id |-> "", userId |-> "", title |-> "", status |-> "", priority |-> "",
     dueDate |-> NullDate]

Exists(d, id) == id \in TaskIds /\ d[id] # NoTask

\* what the table keeps of a saved entity: the column type turns a date given
\* as a string back into a timestamp
DbRow(task) ==
    [task EXCEPT !.dueDate = IF @.type = "string" THEN DateAt(@.t) ELSE @]

\* repository.save(entity): insert when no row has the id, else update
DbSave(d, task) == [d EXCEPT ![task.id] = DbRow(task)]

\* repository.remove(entity)
DbRemove(d, id) == [d EXCEPT ![id] = NoTask]

\* ---- CacheService ----

\* JSON.stringify followed by JSON.parse: a Date comes back as a string
JsonTask(task) ==
    [task EXCEPT !.dueDate = IF @.type = "Date" THEN [type |-> "string", t |-> @.t] ELSE @]
JsonRoundTrip(v) ==
    IF "dueDate" \in DOMAIN v THEN JsonTask(v)
    ELSE IF "data" \in DOMAIN v
         THEN [v EXCEPT !.data = [i \in DOMAIN v.data |-> JsonTask(v.data[i])]]
         ELSE v

\* cache keys are the ':'-separated segments of the Redis key
TaskKey(id) == <<"tasks", id>>
StatsKey == <<"tasks", "stats">>

\* Every CacheService method catches what its Redis command throws: while the
\* store does not answer, get finds nothing and set / del / delPattern do nothing.
CacheHit(c, key) == kvUp /\ key \in DOMAIN c
\* CacheService.get
CacheGet(c, key) == c[key].val
\* CacheService: private readonly defaultTTL = 300, used when set is given no ttl
defaultTTL == 300
\* CacheService.set: redis.setex(key, ttl, JSON.stringify(value))
\* set ignoring the TTL it is given: every entry stored for defaultTTL
CacheSetDefaultTtl(c, key, value, ttlS) ==
    IF ~kvUp THEN c
    ELSE [k \in DOMAIN c \cup {key} |->
             IF k = key THEN [val |-> JsonRoundTrip(value), ttl |-> defaultTTL] ELSE c[k]]
CacheSet(c, key, value, ttlS) ==
    IF ~kvUp THEN c
    ELSE [k \in DOMAIN c \cup {key} |->
             IF k = key THEN [val |-> JsonRoundTrip(value), ttl |-> ttlS] ELSE c[k]]
\* CacheService.del
CacheDel(c, key) == IF ~kvUp THEN c ELSE [k \in DOMAIN c \ {key} |-> c[k]]
\* the glob 'prefix:*'
KeyMatches(key, prefix) ==
    Len(key) > Len(prefix) /\ SubSeq(key, 1, Len(prefix)) = prefix
\* CacheService.delPattern
CacheDelPattern(c, prefix) ==
    IF ~kvUp THEN c ELSE [k \in {x \in DOMAIN c : ~KeyMatches(x, prefix)} |-> c[k]]
\* CacheService.invalidateUserCache
InvalidateUserCache(c, userId) ==
    CacheDel(CacheDelPattern(c, <<"tasks", "user", userId>>), <<"tasks", "stats", userId>>)
\* CacheService.invalidateTaskCache
InvalidateTaskCache(c, taskId, userId) ==
    InvalidateUserCache(CacheDel(c, TaskKey(taskId)), userId)

\* the cache after s seconds: Redis drops the entries whose TTL ran out
CacheElapse(c, s) ==
    [k \in {x \in DOMAIN c : c[x].ttl - s > 0} |-> [c[k] EXCEPT !.ttl = @ - s]]

EmptyCache == [k \in {} |-> [val |-> NoTask, ttl |-> 0]]

\* TTLs of the three kinds of entry, in seconds
ListTtl == 300
TaskTtl == 600
StatsTtl == 120

\* ---- TasksService.findOne, as a function of the state it reads ----
\* returns [err, task, cache]; err is "" on success
\* findOne letting a failed cache read through
FindOneCacheFatal(id, d, up, c) ==
    IF ~kvUp THEN [err |-> "CacheError", task |-> NoTask, cache |-> c]
    ELSE IF CacheHit(c, TaskKey(id))
    THEN [err |-> "", task |-> CacheGet(c, TaskKey(id)), cache |-> c]
    ELSE IF ~up THEN [err |-> "DbError", task |-> NoTask, cache |-> c]
    ELSE IF ~Exists(d, id) THEN [err |-> "NotFound", task |-> NoTask, cache |-> c]
    ELSE [err |-> "", task |-> d[id], cache |-> CacheSet(c, TaskKey(id), d[id], TaskTtl)]
FindOne(id, d, up, c) ==
    IF CacheHit(c, TaskKey(id))
    THEN [err |-> "", task |-> CacheGet(c, TaskKey(id)), cache |-> c]
    ELSE IF ~up THEN [err |-> "DbError", task |-> NoTask, cache |-> c]
    ELSE IF ~Exists(d, id) THEN [err |-> "NotFound", task |-> NoTask, cache |-> c]
    ELSE [err |-> "", task |-> d[id], cache |-> CacheSet(c, TaskKey(id), d[id], TaskTtl)]

\* ---- TasksService.updateStatus: called by the job processor ----
\* returns [err, task, db, cache]
UpdateStatus(id, status, d, up, c) ==
    LET f == FindOne(id, d, up, c) IN
    IF f.err # "" THEN [err |-> f.err, task |-> NoTask, db |-> d, cache |-> f.cache]
    ELSE IF ~up THEN [err |-> "DbError", task |-> NoTask, db |-> d, cache |-> f.cache]
    ELSE LET t == [f.task EXCEPT !.status = status] IN
         [err |-> "", task |-> DbRow(t), db |-> DbSave(d, t), cache |-> f.cache]

(***************************************************************************)
(*                  JOB QUEUE AND TaskProcessorService                     *)
(***************************************************************************)

\* the options checkOverdueTasks gives its jobs
overdueAttempts == 3
backoffDelay == 2000
removeOnCompleteAge == 3600
removeOnFailAge == 86400

BackoffFixed == [type |-> "fixed", delay |-> backoffDelay]
OverdueBackoff == [type |-> "exponential", delay |-> backoffDelay]
OverdueJobOpts ==
    [attempts |-> overdueAttempts, backoff |-> OverdueBackoff,
     removeOnComplete |-> removeOnCompleteAge, removeOnFail |-> removeOnFailAge]
\* Queue.add(name, data) without options: no attempts, no backoff, kept for ever
NoJobOpts ==
    [attempts |-> 0, backoff |-> [type |-> "none", delay |-> 0],
     removeOnComplete |-> 0, removeOnFail |-> 0]

Pow2(n) == IF n <= 0 THEN 1 ELSE IF n = 1 THEN 2 ELSE IF n = 2 THEN 4 ELSE IF n = 3 THEN 8 ELSE 16

\* the queue's delay before the attempt that follows the attemptsMade-th failure
BackoffMs(backoff, attemptsMade) ==
    IF backoff.type = "exponential" THEN Pow2(attemptsMade - 1) * backoff.delay
    ELSE IF backoff.type = "fixed" THEN backoff.delay
    ELSE 0

NewJob(name, data, opts) ==
    [name |-> name, data |-> data, opts |-> opts, state |-> "waiting",
     attemptsMade |-> 0, delay |-> 0, returnvalue |-> [success |-> FALSE, note |-> ""],
     \* history
     runs |-> 0, handlerThrows |-> 0, backoffs |-> <<>>, sinceFail |-> 0]

\* Queue.add
QueueAdd(q, name, data, opts) == Append(q, NewJob(name, data, opts))

\* handleStatusUpdate: [threw, result, db, cache]
HandleStatusUpdateUnchecked(job, d, up, c) ==
    LET u == UpdateStatus(job.data.taskId, job.data.status, d, up, c) IN
    IF u.err # ""
    THEN [threw |-> TRUE, result |-> [success |-> FALSE, note |-> u.err],
          db |-> u.db, cache |-> u.cache]
    ELSE [threw |-> FALSE, result |-> [success |-> TRUE, note |-> u.task.status],
          db |-> u.db, cache |-> u.cache]
HandleStatusUpdate(job, d, up, c) ==
    IF job.data.taskId = "" \/ job.data.status = ""
    THEN [threw |-> FALSE, result |-> [success |-> FALSE, note |-> "Missing required data"],
          db |-> d, cache |-> c]
    ELSE LET u == UpdateStatus(job.data.taskId, job.data.status, d, up, c) IN
         IF u.err # ""
         THEN [threw |-> TRUE, result |-> [success |-> FALSE, note |-> u.err],
               db |-> u.db, cache |-> u.cache]
         ELSE [threw |-> FALSE, result |-> [success |-> TRUE, note |-> u.task.status],
               db |-> u.db, cache |-> u.cache]

\* handleOverdueTasks
HandleOverdueTasks(job, d, c) ==
    [threw |-> FALSE, result |-> [success |-> TRUE, note |-> "Overdue tasks processed"],
     db |-> d, cache |-> c]

\* the switch of process(): the handler for the job's name
Handler(job, d, up, c) ==
    IF job.name = "task-status-update" THEN HandleStatusUpdate(job, d, up, c)
    ELSE IF job.name = "overdue-tasks-notification" THEN HandleOverdueTasks(job, d, c)
    ELSE [threw |-> FALSE, result |-> [success |-> FALSE, note |-> "Unknown job type"],
          db |-> d, cache |-> c]

\* process(job): a handler's error is logged and thrown again
ProcessSwallowing(job, d, up, c) ==
    [Handler(job, d, up, c) EXCEPT !.threw = FALSE]
Process(job, d, up, c) == Handler(job, d, up, c)

\* process(): job.opts.attempts || 1
MaxAttempts(job) == IF job.opts.attempts = 0 THEN 1 ELSE job.opts.attempts

\* the bookkeeping that would put a job back in line however often it threw
AfterThrowAlwaysRetry(job) ==
    LET made == job.attemptsMade + 1
        ms == BackoffMs(job.opts.backoff, made) IN
    [job EXCEPT !.attemptsMade = made,
                !.state = IF ms > 0 THEN "delayed" ELSE "waiting",
                !.delay = ms,
                !.backoffs = Append(@, ms),
                !.sinceFail = 0]
\* the queue's bookkeeping when process() threw: retry while attempts remain
AfterThrow(job) ==
    LET made == job.attemptsMade + 1 IN
    IF made < job.opts.attempts
    THEN LET ms == BackoffMs(job.opts.backoff, made) IN
         [job EXCEPT !.attemptsMade = made,
                     !.state = IF ms > 0 THEN "delayed" ELSE "waiting",
                     !.delay = ms,
                     !.backoffs = Append(@, ms),
                     !.sinceFail = 0]
    ELSE [job EXCEPT !.attemptsMade = made, !.state = "failed"]

\* the queue's bookkeeping when process() returned
AfterReturn(job, result) ==
    [job EXCEPT !.state = "completed", !.returnvalue = result]

\* the job after ms milliseconds: a delay that ran out puts it back in line
JobElapse(job, ms) ==
    IF job.state = "delayed"
    THEN [job EXCEPT !.delay = Max(@ - ms, 0),
                     !.state = IF job.delay - ms <= 0 THEN "waiting" ELSE "delayed",
                     !.sinceFail = Min(@ + ms, Pow2(job.opts.attempts - 2) * backoffDelay)]
    ELSE job

MaxJobs == 2

\* the jobs that reach the queue: what create / update / batchProcess add
\* (status update, no options), what the scan adds (overdue notification with
\* its options), status updates given the scan's options, a job of no known
\* type and one without its data
JobInputs ==
    { [name |-> "task-status-update", data |-> [taskId |-> "t1", status |-> "COMPLETED"],
       opts |-> NoJobOpts],
      [name |-> "task-status-update", data |-> [taskId |-> "t1", status |-> "IN_PROGRESS"],
       opts |-> OverdueJobOpts],
      [name |-> "task-status-update", data |-> [taskId |-> "t2", status |-> "COMPLETED"],
       opts |-> OverdueJobOpts],
      [name |-> "task-status-update", data |-> [taskId |-> "", status |-> "COMPLETED"],
       opts |-> OverdueJobOpts],
      [name |-> "overdue-tasks-notification",
       data |-> [taskId |-> "t1", userId |-> "u1", title |-> "A", dueDate |-> DateAt(60)],
       opts |-> OverdueJobOpts],
      [name |-> "task-status-update", data |-> [taskId |-> "t1", status |-> ""],
       opts |-> OverdueJobOpts],
      [name |-> "unknown", data |-> [taskId |-> "t1", status |-> "COMPLETED"],
       opts |-> OverdueJobOpts] }

\* a producer adds a job
ProducerAdd(in) ==
    /\ Len(queue) < MaxJobs
    /\ queue' = QueueAdd(queue, in.name, in.data, in.opts)
    /\ UNCHANGED <<storeVars, obsVars, rlVars>>

\* a worker that a failed job would have brought down: it takes nothing more
WorkerPickUpUnlessCrashed(j) ==
    /\ queue[j].state = "waiting"
    /\ \A i \in DOMAIN queue : queue[i].state # "failed"
    /\ queue' = [queue EXCEPT ![j].state = "active"]
    /\ UNCHANGED <<storeVars, obsVars, rlVars>>
\* the worker takes a waiting job: Queued -> Active
WorkerPickUp(j) ==
    /\ queue[j].state = "waiting"
    /\ queue' = [queue EXCEPT ![j].state = "active"]
    /\ UNCHANGED <<storeVars, obsVars, rlVars>>

\* the worker runs process(job) and the queue records the outcome
WorkerProcess(j) ==
    /\ queue[j].state = "active"
    /\ LET job == queue[j]
           h == Handler(job, db, dbUp, cache)
           p == Process(job, db, dbUp, cache)
           ran == [job EXCEPT !.runs = @ + 1,
                              !.handlerThrows = @ + (IF h.threw THEN 1 ELSE 0)] IN
        /\ db' = p.db
        /\ cache' = p.cache
        /\ queue' = [queue EXCEPT ![j] =
               IF p.threw THEN AfterThrow(ran) ELSE AfterReturn(ran, p.result)]
    /\ UNCHANGED <<dbUp, kvUp, clock, obsVars, rlVars>>

\* backoffDelay milliseconds pass
JobTick ==
    /\ \E j \in DOMAIN queue : queue[j].state = "delayed"
    /\ queue' = [j \in DOMAIN queue |-> JobElapse(queue[j], backoffDelay)]
    /\ UNCHANGED <<storeVars, obsVars, rlVars>>

\* CacheTickS seconds pass: cache entries run out, every backoff delay is over.
\* The clock is read only against due dates; it stops counting at ClockCap, which
\* is later than every due date explored.
CacheTickS == 60
ClockCap == 120

TimePasses ==
    /\ cache' = CacheElapse(cache, CacheTickS)
    /\ clock' = Min(clock + CacheTickS, ClockCap)
    /\ queue' = [j \in DOMAIN queue |-> JobElapse(queue[j], CacheTickS * 1000)]
    /\ (cache' # cache \/ clock' # clock \/ queue' # queue)
    /\ UNCHANGED <<db, dbUp, kvUp, obsVars, rlVars>>

\* the Redis behind the cache stops answering, or answers again
KvFlip ==
    /\ kvUp' = ~kvUp
    /\ UNCHANGED <<db, dbUp, cache, clock, queueVars, obsVars, rlVars>>

\* the datastore goes away or comes back
DbFlip ==
    /\ dbUp' = ~dbUp
    /\ UNCHANGED <<db, kvUp, cache, clock, queueVars, obsVars, rlVars>>

(***************************************************************************)
(*                            TasksService                                 *)
(***************************************************************************)

\* the rows in the order the table returns them
IdOrder == <<"t1", "t2", "t3">>

\* ---- CacheService.generateCacheKey ----
\* params: the object's entries <<name, value>> in insertion order. The names
\* sorted as Array.prototype.sort sorts them:
ParamOrder == <<"limit", "page", "priority", "status">>
ParamValue(params, name) ==
    LET idx == {i \in DOMAIN params : params[i][1] = name} IN
    params[CHOOSE i \in idx : \A k \in idx : k <= i][2]
SortedNames(params) ==
    SelectSeq(ParamOrder, LAMBDA n : \E i \in DOMAIN params : params[i][1] = n)
RECURSIVE JoinParams(_, _)
JoinParams(names, params) ==
    IF names = <<>> THEN <<>>
    ELSE <<Head(names), ParamValue(params, Head(names))>> \o JoinParams(Tail(names), params)
\* the key without the sort: the entries joined in the order Object.keys gives
GenerateCacheKeyUnsorted(prefix, params) ==
    prefix \o JoinParams([i \in DOMAIN params |-> params[i][1]], params)
GenerateCacheKey(prefix, params) == prefix \o JoinParams(SortedNames(params), params)

\* ---- calls of generateCacheKey on its own ----
MaxParams == 3
KeyPrefixes == { <<"tasks", "list">>, <<"tasks", "stats">> }
KeyValues == {"1", "all"}
KeyEntries == {<<ParamOrder[i], v>> : i \in DOMAIN ParamOrder, v \in KeyValues}
\* an object's entries in insertion order: no name twice
ParamLists ==
    UNION { {q \in [1..n -> KeyEntries] : \A i, j \in 1..n : i # j => q[i][1] # q[j][1]} :
            n \in 0..MaxParams }
SameMapping(a, b) ==
    Len(a) = Len(b) /\ {a[i] : i \in DOMAIN a} = {b[i] : i \in DOMAIN b}

\* generateCacheKey(prefix, params) called for one mapping written in two orders
GenerateKeyCall(prefix, params, other) ==
    /\ resp = NoResp
    /\ resp' = [op |-> "generateCacheKey", prefix |-> prefix, params |-> params,
                other |-> other,
                key |-> GenerateCacheKey(prefix, params),
                otherKey |-> GenerateCacheKey(prefix, other)]
    /\ UNCHANGED <<hist, storeVars, queueVars, rlVars>>

OrAll(v) == IF v = "" THEN "all" ELSE v

\* findAll: const { page = 1, limit = 10, status, priority } = filterDto || {};
\* a field the request does not carry is 0 (page, limit) or "" (status, priority)
defaultPage == 1
defaultLimit == 10
Page(f) == IF f.page = 0 THEN defaultPage ELSE f.page
Limit(f) == IF f.limit = 0 THEN defaultLimit ELSE f.limit

\* findAll's key: generateCacheKey('tasks:list', {page, limit, status, priority})
ListKey(f) ==
    GenerateCacheKey(<<"tasks", "list">>,
        << <<"page", ToString(Page(f))>>, <<"limit", ToString(Limit(f))>>,
           <<"status", OrAll(f.status)>>, <<"priority", OrAll(f.priority)>> >>)

IsListKey(k) == Len(k) > 2 /\ SubSeq(k, 1, 2) = <<"tasks", "list">>

\* ---- findAll's query: filters, then skip/take, with the count ----
Matches(task, f) ==
    /\ task # NoTask
    /\ f.status = "" \/ task.status = f.status
    /\ f.priority = "" \/ task.priority = f.priority

\* the query counting the rows of the page instead of the rows that match
ListQueryPageCount(d, f) ==
    LET rows == SelectSeq(IdOrder, LAMBDA id : Matches(d[id], f))
        skip == (Page(f) - 1) * Limit(f)
        page == SubSeq(rows, skip + 1, Min(skip + Limit(f), Len(rows)))
        total == Len(page) IN
    [data |-> [i \in DOMAIN page |-> d[page[i]]],
     meta |-> [total |-> total, page |-> Page(f), limit |-> Limit(f),
               totalPages |-> (total + Limit(f) - 1) \div Limit(f)]]
ListQuery(d, f) ==
    LET rows == SelectSeq(IdOrder, LAMBDA id : Matches(d[id], f))
        total == Len(rows)
        skip == (Page(f) - 1) * Limit(f)
        page == SubSeq(rows, skip + 1, Min(skip + Limit(f), total)) IN
    [data |-> [i \in DOMAIN page |-> d[page[i]]],
     meta |-> [total |-> total, page |-> Page(f), limit |-> Limit(f),
               totalPages |-> (total + Limit(f) - 1) \div Limit(f)]]

\* ---- getStats's queries ----
\* the statistics with every task that is not completed counted as pending
StatsQueryOpenAsPending(d) ==
    LET rows == {id \in TaskIds : d[id] # NoTask} IN
    [total |-> Cardinality(rows),
     completed |-> Cardinality({id \in rows : d[id].status = "COMPLETED"}),
     inProgress |-> Cardinality({id \in rows : d[id].status = "IN_PROGRESS"}),
     pending |-> Cardinality({id \in rows : d[id].status # "COMPLETED"}),
     highPriority |-> Cardinality({id \in rows : d[id].priority = "HIGH"})]
StatsQuery(d) ==
    LET rows == {id \in TaskIds : d[id] # NoTask} IN
    [total |-> Cardinality(rows),
     completed |-> Cardinality({id \in rows : d[id].status = "COMPLETED"}),
     inProgress |-> Cardinality({id \in rows : d[id].status = "IN_PROGRESS"}),
     pending |-> Cardinality({id \in rows : d[id].status = "PENDING"}),
     highPriority |-> Cardinality({id \in rows : d[id].priority = "HIGH"})]

StatusJob(task) == [taskId |-> task.id, status |-> task.status]

\* ---- the requests explored ----
MaxOps == 3

Filters ==
    { [page |-> 0, limit |-> 0, status |-> "", priority |-> ""],
      [page |-> 2, limit |-> 1, status |-> "", priority |-> ""],
      [page |-> 1, limit |-> 10, status |-> "PENDING", priority |-> "HIGH"] }

CreateDtos ==
    { [userId |-> "u1", title |-> "A", status |-> "PENDING", priority |-> "HIGH",
       dueDate |-> DateAt(90)],
      [userId |-> "u2", title |-> "B", status |-> "COMPLETED", priority |-> "LOW",
       dueDate |-> NullDate],
      [userId |-> "u9", title |-> "A", status |-> "PENDING", priority |-> "LOW",
       dueDate |-> NullDate] }

\* an absent field of an update is "" (NullDate for the due date)
UpdateDtos ==
    { [title |-> "B", status |-> "", priority |-> "", dueDate |-> DateAt(60)],
      [title |-> "", status |-> "COMPLETED", priority |-> "", dueDate |-> NullDate],
      [title |-> "", status |-> "IN_PROGRESS", priority |-> "HIGH", dueDate |-> DateAt(30)] }

BatchLists ==
    { <<"t1", "t3", "t2">>, <<"t2", "t1">>, <<"t1", "t1">>, <<>> }

FreeIds == {id \in TaskIds : id \notin hist.used}
\* the id the table gives the next row: one never given before
FreshId == CHOOSE id \in FreeIds : \A k \in DOMAIN IdOrder :
               IdOrder[k] \in FreeIds => \E m \in 1..k : IdOrder[m] = id

Began(op) ==
    [ops |-> hist.ops + 1, used |-> hist.used, db |-> db, queueLen |-> Len(queue),
     kv |-> kvUp]
CanBegin == hist.ops < MaxOps /\ dbUp

\* create: usersRepository.findOne({where: {id: createTaskDto.userId}})
UserExistsAlways(userId) == TRUE
UserExists(userId) == userId \in Users

\* create(createTaskDto); addFails: the queue rejects the add
Create(dto, addFails) ==
    /\ CanBegin
    /\ UserExists(dto.userId) => FreeIds # {}
    /\ IF ~UserExists(dto.userId)
       THEN /\ resp' = [op |-> "create", dto |-> dto, err |-> "BadRequest", body |-> NoTask]
            /\ hist' = Began("create")
            /\ UNCHANGED <<db, cache, queue>>
       ELSE LET saved == [id |-> FreshId, userId |-> dto.userId, title |-> dto.title,
                          status |-> dto.status, priority |-> dto.priority,
                          dueDate |-> dto.dueDate] IN
            /\ db' = DbSave(db, saved)
            /\ hist' = [Began("create") EXCEPT !.used = @ \cup {saved.id}]
            /\ IF addFails
               THEN /\ resp' = [op |-> "create", dto |-> dto, err |-> "QueueError", body |-> NoTask]
                    /\ UNCHANGED <<cache, queue>>
               ELSE /\ queue' = QueueAdd(queue, "task-status-update", StatusJob(saved), NoJobOpts)
                    /\ cache' = InvalidateUserCache(cache, dto.userId)
                    /\ resp' = [op |-> "create", dto |-> dto, err |-> "", body |-> saved]
    /\ UNCHANGED <<dbUp, kvUp, clock, rlVars>>

\* findAll(filterDto)
FindAll(f) ==
    /\ CanBegin
    /\ LET key == ListKey(f) IN
       IF CacheHit(cache, key)
       THEN /\ resp' = [op |-> "findAll", filter |-> f, err |-> "", hit |-> TRUE,
                        body |-> CacheGet(cache, key)]
            /\ UNCHANGED cache
       ELSE LET result == ListQuery(db, f) IN
            /\ cache' = CacheSet(cache, key, result, ListTtl)
            /\ resp' = [op |-> "findAll", filter |-> f, err |-> "", hit |-> FALSE,
                        body |-> result]
    /\ hist' = Began("findAll")
    /\ UNCHANGED <<db, dbUp, kvUp, clock, queue, rlVars>>

\* findOne(id)
FindOneReq(id) ==
    /\ CanBegin
    /\ LET f == FindOne(id, db, dbUp, cache) IN
        /\ cache' = f.cache
        /\ resp' = [op |-> "findOne", id |-> id, err |-> f.err,
                    hit |-> CacheHit(cache, TaskKey(id)), body |-> f.task]
    /\ hist' = Began("findOne")
    /\ UNCHANGED <<db, dbUp, kvUp, clock, queue, rlVars>>

\* getStats()
GetStats ==
    /\ CanBegin
    /\ IF CacheHit(cache, StatsKey)
       THEN /\ resp' = [op |-> "getStats", err |-> "", hit |-> TRUE,
                        body |-> CacheGet(cache, StatsKey)]
            /\ UNCHANGED cache
       ELSE LET stats == StatsQuery(db) IN
            /\ cache' = CacheSet(cache, StatsKey, stats, StatsTtl)
            /\ resp' = [op |-> "getStats", err |-> "", hit |-> FALSE, body |-> stats]
    /\ hist' = Began("getStats")
    /\ UNCHANGED <<db, dbUp, kvUp, clock, queue, rlVars>>

\* the fields an update request carries replace the task's
ApplyUpdate(task, dto) ==
    [task EXCEPT !.title = IF dto.title # "" THEN dto.title ELSE @,
                 !.status = IF dto.status # "" THEN dto.status ELSE @,
                 !.priority = IF dto.priority # "" THEN dto.priority ELSE @,
                 !.dueDate = IF dto.dueDate # NullDate THEN dto.dueDate ELSE @]

\* update(id, updateTaskDto)
Update(id, dto, addFails) ==
    /\ CanBegin
    /\ LET f == FindOne(id, db, dbUp, cache) IN
       IF f.err # ""
       THEN /\ resp' = [op |-> "update", id |-> id, dto |-> dto, err |-> f.err, body |-> NoTask]
            /\ cache' = f.cache
            /\ UNCHANGED <<db, queue>>
       ELSE LET task == ApplyUpdate(f.task, dto)
                updated == DbRow(task)
                changed == f.task.status # updated.status IN
            /\ db' = DbSave(db, task)
            /\ IF changed /\ addFails
               THEN /\ resp' = [op |-> "update", id |-> id, dto |-> dto,
                                err |-> "QueueError", body |-> NoTask]
                    /\ cache' = f.cache
                    /\ UNCHANGED queue
               ELSE /\ queue' = IF changed
                                THEN QueueAdd(queue, "task-status-update",
                                              StatusJob(updated), NoJobOpts)
                                ELSE queue
                    /\ cache' = InvalidateTaskCache(f.cache, id, task.userId)
                    /\ resp' = [op |-> "update", id |-> id, dto |-> dto, err |-> "",
                                body |-> updated]
    /\ hist' = Began("update")
    /\ UNCHANGED <<dbUp, kvUp, clock, rlVars>>

\* remove(id)
Remove(id) ==
    /\ CanBegin
    /\ LET f == FindOne(id, db, dbUp, cache) IN
       IF f.err # ""
       THEN /\ resp' = [op |-> "remove", id |-> id, err |-> f.err]
            /\ cache' = f.cache
            /\ UNCHANGED db
       ELSE /\ db' = DbRemove(db, id)
            /\ cache' = InvalidateTaskCache(f.cache, id, f.task.userId)
            /\ resp' = [op |-> "remove", id |-> id, err |-> ""]
    /\ hist' = Began("remove")
    /\ UNCHANGED <<dbUp, kvUp, clock, queue, rlVars>>

\* ---- batchProcess: the loop over the task ids, inside one transaction ----
\* st: [db, queue, results, users, existed]; existed is history: whether the
\* row was there when its item was processed
BatchItem(st, taskId, action, fails) ==
    IF ~Exists(st.db, taskId)
    THEN [st EXCEPT !.results = Append(@, [taskId |-> taskId, success |-> FALSE,
                                           error |-> "NotFound"]),
                    !.existed = Append(@, FALSE)]
    ELSE IF action = "COMPLETE"
    THEN LET task == [st.db[taskId] EXCEPT !.status = "COMPLETED"]
             saved == [st EXCEPT !.db = DbSave(@, task),
                                 !.users = @ \cup {task.userId},
                                 !.existed = Append(@, TRUE)] IN
         IF taskId \in fails
         THEN [saved EXCEPT !.results = Append(@, [taskId |-> taskId, success |-> FALSE,
                                                   error |-> "QueueError"])]
         ELSE [saved EXCEPT !.queue = QueueAdd(@, "task-status-update", StatusJob(task),
                                               NoJobOpts),
                            !.results = Append(@, [taskId |-> taskId, success |-> TRUE,
                                                   error |-> ""])]
    ELSE [st EXCEPT !.users = @ \cup {st.db[taskId].userId},
                    !.db = DbRemove(@, taskId),
                    !.results = Append(@, [taskId |-> taskId, success |-> TRUE, error |-> ""]),
                    !.existed = Append(@, TRUE)]

RECURSIVE BatchLoop(_, _, _, _)
BatchLoop(st, ids, action, fails) ==
    IF ids = <<>> THEN st
    ELSE BatchLoop(BatchItem(st, Head(ids), action, fails), Tail(ids), action, fails)

\* the loop that would stop at the first failed item and roll the rest back
BatchLoopAtomic(st, ids, action, fails) ==
    LET done == BatchLoop(st, ids, action, fails) IN
    IF \E i \in DOMAIN done.results : ~done.results[i].success
    THEN [st EXCEPT !.results = done.results, !.existed = done.existed]
    ELSE done
BatchRun(st, ids, action, fails) == BatchLoop(st, ids, action, fails)

RECURSIVE InvalidateUsers(_, _)
InvalidateUsers(c, users) ==
    IF users = {} THEN c
    ELSE LET u == CHOOSE x \in users : TRUE IN
         InvalidateUsers(InvalidateUserCache(c, u), users \ {u})

\* batchProcess({tasks, action}); fails: the ids whose queue add is rejected
BatchProcess(ids, action, fails) ==
    /\ CanBegin
    /\ LET st == BatchRun([db |-> db, queue |-> queue, results |-> <<>>, users |-> {},
                           existed |-> <<>>], ids, action, fails) IN
        /\ db' = st.db
        /\ queue' = st.queue
        /\ cache' = InvalidateUsers(cache, st.users)
        /\ resp' = [op |-> "batchProcess", ids |-> ids, action |-> action, err |-> "",
                    existed |-> st.existed,
                    body |-> [processed |-> Len(ids),
                              successful |-> Cardinality({i \in DOMAIN st.results :
                                                             st.results[i].success}),
                              failed |-> Cardinality({i \in DOMAIN st.results :
                                                         ~st.results[i].success}),
                              results |-> st.results]]
    /\ hist' = Began("batchProcess")
    /\ UNCHANGED <<dbUp, kvUp, clock, rlVars>>

(***************************************************************************)
(*                        OverdueTasksService                              *)
(***************************************************************************)

\* find({where: {dueDate: LessThan(now), status: PENDING}})
OverdueAnyStatus(task, now) ==
    task # NoTask /\ task.dueDate.type = "Date" /\ task.dueDate.t < now
Overdue(task, now) ==
    /\ task # NoTask
    /\ task.dueDate.type = "Date" /\ task.dueDate.t < now
    /\ task.status = "PENDING"

OverdueTasks(d, now) == SelectSeq(IdOrder, LAMBDA id : Overdue(d[id], now))

OverdueJobData(task) ==
    [taskId |-> task.id, userId |-> task.userId, title |-> task.title,
     dueDate |-> task.dueDate]

\* the for loop: st = [queue, successCount, failureCount, attempted, threw]
RECURSIVE ScanLoop(_, _, _, _)
ScanLoop(st, ids, d, fails) ==
    IF ids = <<>> THEN st
    ELSE LET id == Head(ids)
             tried == [st EXCEPT !.attempted = Append(@, id)] IN
         ScanLoop(IF id \in fails
                  THEN [tried EXCEPT !.failureCount = @ + 1]
                  ELSE [tried EXCEPT !.successCount = @ + 1,
                                     !.queue = QueueAdd(@, "overdue-tasks-notification",
                                                        OverdueJobData(d[id]), OverdueJobOpts)],
                  Tail(ids), d, fails)

\* the loop without its try/catch: the first rejected add ends the run
ScanLoopAborting(st, ids, d, fails) ==
    LET bad == {i \in DOMAIN ids : ids[i] \in fails} IN
    IF bad = {} THEN ScanLoop(st, ids, d, fails)
    ELSE LET k == CHOOSE i \in bad : \A j \in bad : i <= j IN
         [ScanLoop(st, SubSeq(ids, 1, k - 1), d, fails)
             EXCEPT !.attempted = Append(@, ids[k]), !.threw = TRUE]
ScanRun(st, ids, d, fails) == ScanLoop(st, ids, d, fails)

\* checkOverdueTasks(), run by the hourly cron; fails: the ids whose add is rejected
CheckOverdueTasks(fails) ==
    /\ CanBegin
    /\ LET found == OverdueTasks(db, clock)
           st == ScanRun([queue |-> queue, successCount |-> 0, failureCount |-> 0,
                          attempted |-> <<>>, threw |-> FALSE], found, db, fails) IN
        /\ queue' = st.queue
        /\ resp' = [op |-> "checkOverdueTasks",
                    err |-> IF st.threw THEN "QueueError" ELSE "", now |-> clock,
                    found |-> Len(found), fails |-> fails,
                    attempted |-> st.attempted,
                    successCount |-> st.successCount, failureCount |-> st.failureCount]
    /\ hist' = Began("checkOverdueTasks")
    /\ UNCHANGED <<db, dbUp, kvUp, cache, clock, rlVars>>

(***************************************************************************)
(*                          SPECIFICATIONS                                 *)
(***************************************************************************)

NoHist ==
    [ops |-> 0, used |-> {}, db |-> [id \in TaskIds |-> NoTask], queueLen |-> 0,
     kv |-> TRUE]

\* no task service, no queue: the state the rate limiter runs beside
QuietStore ==
    /\ db = [id \in TaskIds |-> NoTask]
    /\ dbUp = TRUE
    /\ kvUp = TRUE
    /\ cache = EmptyCache
    /\ queue = <<>>
    /\ clock = 0
    /\ resp = NoResp
    /\ hist = NoHist

\* no request in flight at the rate limiter
QuietRL ==
    /\ rlcfg = [callers |-> {}, ids |-> {}, cap |-> 0]
    /\ throttle = [k \in Identities |-> NoKey]
    /\ caller = [c \in Callers |-> IdleCaller]
    /\ win = [k \in Identities |-> FreshWin]

\* ---- SpecJob: the queue and its consumer over a small table ----
JobTask ==
    [id |-> "t1", userId |-> "u1", title |-> "A", status |-> "PENDING",
     priority |-> "MEDIUM", dueDate |-> DateAt(60)]

InitJob ==
    /\ db = [id \in TaskIds |-> IF id = "t1" THEN JobTask ELSE NoTask]
    /\ dbUp = TRUE
    /\ kvUp = TRUE
    /\ cache = EmptyCache
    /\ queue = <<>>
    /\ clock = 0
    /\ resp = NoResp
    /\ hist = NoHist
    /\ QuietRL

NextJob ==
    \/ \E in \in JobInputs : ProducerAdd(in)
    \/ \E j \in DOMAIN queue : WorkerPickUp(j)
    \/ \E j \in DOMAIN queue : WorkerProcess(j)
    \/ JobTick
    \/ TimePasses
    \/ DbFlip

SpecJob == InitJob /\ [][NextJob]_vars

\* ---- SpecJobLive: the same, with a worker that keeps running ----
\* The worker's loop takes a waiting job whenever there is one and runs
\* process() to its end; the queue's timers move a delayed job back in line.
JobFairness ==
    /\ WF_vars(\E j \in DOMAIN queue : WorkerPickUp(j))
    /\ WF_vars(\E j \in DOMAIN queue : WorkerProcess(j))
    /\ WF_vars(JobTick)

SpecJobLive == InitJob /\ [][NextJob]_vars /\ JobFairness

\* ---- SpecTasks: the task service, its cache, the producers, the scan ----
SeedTasks ==
    [id \in TaskIds |->
        IF id = "t1"
        THEN [id |-> "t1", userId |-> "u1", title |-> "A", status |-> "PENDING",
              priority |-> "HIGH", dueDate |-> DateAt(30)]
        ELSE IF id = "t2"
        THEN [id |-> "t2", userId |-> "u2", title |-> "A", status |-> "IN_PROGRESS",
              priority |-> "LOW", dueDate |-> DateAt(30)]
        ELSE NoTask]

InitTasks ==
    /\ db = SeedTasks
    /\ dbUp = TRUE
    /\ kvUp = TRUE
    /\ cache = EmptyCache
    /\ queue = <<>>
    /\ clock = 60
    /\ resp = NoResp
    /\ hist = [NoHist EXCEPT !.used = {"t1", "t2"}, !.db = SeedTasks]
    /\ QuietRL

\* the adds the queue rejects during one call
FailSets == { {}, {"t1"}, {"t2", "t3"} }

NextTasks ==
    \/ \E dto \in CreateDtos, addFails \in BOOLEAN : Create(dto, addFails)
    \/ \E f \in Filters : FindAll(f)
    \/ \E id \in TaskIds : FindOneReq(id)
    \/ \E id \in TaskIds, dto \in UpdateDtos, addFails \in BOOLEAN : Update(id, dto, addFails)
    \/ \E id \in TaskIds : Remove(id)
    \/ GetStats
    \/ \E ids \in BatchLists, action \in {"COMPLETE", "DELETE"}, fails \in FailSets :
          BatchProcess(ids, action, fails)
    \/ \E fails \in FailSets : CheckOverdueTasks(fails)
    \/ TimePasses

SpecTasks == InitTasks /\ [][NextTasks]_vars

\* ---- SpecKv: the task service while the cache's Redis comes and goes ----
NextKv ==
    \/ NextTasks
    \/ KvFlip

SpecKv == InitTasks /\ [][NextKv]_vars

\* ---- SpecCache: CacheService.set / get / del on their own, with time ----
CacheKeys == {TaskKey("t1"), StatsKey}
CacheTtls == {CacheTickS, 2 * CacheTickS}
\* what the service caches: a task with a due date, one without, statistics
CacheValues ==
    { SeedTasks["t1"], [SeedTasks["t2"] EXCEPT !.dueDate = NullDate], StatsQuery(SeedTasks) }

\* what get resolves to when it finds nothing
Null == [null |-> TRUE]
CacheRead(c, key) == IF CacheHit(c, key) THEN CacheGet(c, key) ELSE Null

\* history of a key: the value last given to set, its TTL, the seconds since
NotWritten == [v |-> Null, ttl |-> 0, age |-> 0]

InitCache ==
    /\ db = [id \in TaskIds |-> NoTask]
    /\ dbUp = TRUE
    /\ kvUp = TRUE
    /\ cache = EmptyCache
    /\ queue = <<>>
    /\ clock = 0
    /\ resp = NoResp
    /\ hist = [written |-> [k \in CacheKeys |-> NotWritten]]
    /\ QuietRL

\* set(key, value, ttl)
SetCall(key, value, ttlS) ==
    /\ cache' = CacheSet(cache, key, value, ttlS)
    /\ hist' = [hist EXCEPT !.written[key] = [v |-> value, ttl |-> ttlS, age |-> 0]]
    /\ resp' = [op |-> "set", key |-> key]
    /\ UNCHANGED <<db, dbUp, kvUp, clock, queue, rlVars>>

\* get(key)
GetCall(key) ==
    /\ resp' = [op |-> "get", key |-> key, value |-> CacheRead(cache, key)]
    /\ UNCHANGED <<hist, storeVars, queueVars, rlVars>>

\* del(key)
DelCall(key) ==
    /\ cache' = CacheDel(cache, key)
    /\ hist' = [hist EXCEPT !.written[key] = NotWritten]
    /\ resp' = [op |-> "del", key |-> key]
    /\ UNCHANGED <<db, dbUp, kvUp, clock, queue, rlVars>>

\* CacheTickS seconds pass
CacheAges ==
    /\ \E k \in CacheKeys : hist.written[k].age < hist.written[k].ttl
    /\ cache' = CacheElapse(cache, CacheTickS)
    /\ hist' = [hist EXCEPT !.written =
                   [k \in CacheKeys |-> [@[k] EXCEPT !.age = Min(@ + CacheTickS, hist.written[k].ttl)]]]
    /\ resp' = NoResp
    /\ UNCHANGED <<db, dbUp, kvUp, clock, queue, rlVars>>

NextCache ==
    \/ \E key \in CacheKeys, value \in CacheValues, ttlS \in CacheTtls : SetCall(key, value, ttlS)
    \/ \E key \in CacheKeys : GetCall(key)
    \/ \E key \in CacheKeys : DelCall(key)
    \/ CacheAges

SpecCache == InitCache /\ [][NextCache]_vars

\* ---- SpecKey: generateCacheKey over small parameter objects ----
InitKey ==
    /\ QuietStore
    /\ QuietRL

NextKey ==
    \E prefix \in KeyPrefixes, params \in ParamLists :
        \E other \in {q \in ParamLists : SameMapping(params, q)} :
            GenerateKeyCall(prefix, params, other)

SpecKey == InitKey /\ [][NextKey]_vars

\* ---- SpecTracker: getTracker over small requests ----
InitTracker ==
    /\ QuietStore
    /\ QuietRL

NextTracker == \E req \in TrackerRequests, other \in TrackerRequests : GetTrackerCall(req, other)

SpecTracker == InitTracker /\ [][NextTracker]_vars

\* ---- SpecRL: the rate limiter ----
\* the part of the state the rate limiter leaves alone
RestOfRL == UNCHANGED <<storeVars, queueVars, obsVars>>

NextRL ==
    \/ \E c \in Callers, k \in Identities : PipelineIncr(c, k) /\ RestOfRL
    \/ \E c \in Callers : PipelinePttl(c) /\ RestOfRL
    \/ \E c \in Callers : Pexpire(c) /\ RestOfRL
    \/ \E c \in Callers : GuardDecide(c) /\ RestOfRL
    \/ WindowTick /\ RestOfRL

InitRL ==
    /\ RLStart
    /\ QuietStore

SpecRL == InitRL /\ [][NextRL]_vars

\* ---- SpecRLFail: the rate limiter over a Redis that can be unreachable ----
NextRLFail ==
    \/ NextRL
    \/ \E c \in Callers, k \in Identities : PipelineExecFails(c, k) /\ RestOfRL
    \/ \E c \in Callers : PexpireFails(c) /\ RestOfRL

SpecRLFail == InitRL /\ [][NextRLFail]_vars

(***************************************************************************)
(*        TasksService, one await per step: requests that overlap          *)
(***************************************************************************)
\* In SpecConc resp holds one record per request in flight: its position (pc),
\* its arguments and the locals of the method; hist holds the requests begun
\* and the writes made so far.

Procs == {"p1", "p2"}
MaxCalls == 3

\* the requests explored: all on task t1
ConcTitleDto == [title |-> "B", status |-> "", priority |-> "", dueDate |-> NullDate]
ConcStatusDto == [title |-> "", status |-> "COMPLETED", priority |-> "", dueDate |-> NullDate]
ConcNoDto == [title |-> "", status |-> "", priority |-> "", dueDate |-> NullDate]
ConcRequests ==
    { [op |-> "findOne", id |-> "t1", dto |-> ConcNoDto],
      [op |-> "update", id |-> "t1", dto |-> ConcTitleDto],
      [op |-> "update", id |-> "t1", dto |-> ConcStatusDto],
      [op |-> "remove", id |-> "t1", dto |-> ConcNoDto],
      [op |-> "updateStatus", id |-> "t1", dto |-> ConcStatusDto],
      [op |-> "getStats", id |-> "", dto |-> ConcNoDto] }

NoStats == [total |-> 0, completed |-> 0, inProgress |-> 0, pending |-> 0, highPriority |-> 0]

ConcIdle ==
    [pc |-> "idle", op |-> "", id |-> "", dto |-> ConcNoDto, task |-> NoTask,
     stats |-> NoStats, hit |-> FALSE, err |-> "",
     \* history: the row read was no longer the stored one when it was saved;
     \* the table was written while the statistics were being read
     stale |-> FALSE, dirty |-> FALSE]

ConcKey(r) == IF r.op = "getStats" THEN StatsKey ELSE TaskKey(r.id)

\* where a method goes on after its findOne (or, for getStats, after its set)
AfterFindOne(op) ==
    IF op \in {"update", "updateStatus"} THEN "save"
    ELSE IF op = "remove" THEN "remove"
    ELSE "done"

ConcRest == UNCHANGED <<dbUp, kvUp, clock, rlVars>>

\* a request arrives
ConcBegin(p, req) ==
    /\ resp[p].pc \in {"idle", "done"}
    /\ hist.calls < MaxCalls
    /\ resp' = [resp EXCEPT ![p] = [ConcIdle EXCEPT !.pc = "get", !.op = req.op,
                                                    !.id = req.id, !.dto = req.dto]]
    /\ hist' = [hist EXCEPT !.calls = @ + 1, !.begun = @ \cup {req.op}]
    /\ UNCHANGED <<db, cache, queue>>
    /\ ConcRest

\* await this.cacheService.get(cacheKey); if (cached) return cached
ConcCacheGet(p) ==
    /\ resp[p].pc = "get"
    /\ LET r == resp[p]
           key == ConcKey(r) IN
       IF CacheHit(cache, key)
       THEN resp' = [resp EXCEPT ![p] =
                [r EXCEPT !.hit = TRUE,
                          !.task = IF r.op = "getStats" THEN @ ELSE CacheGet(cache, key),
                          !.stats = IF r.op = "getStats" THEN CacheGet(cache, key) ELSE @,
                          !.pc = AfterFindOne(r.op)]]
       ELSE resp' = [resp EXCEPT ![p].pc = IF r.op = "getStats" THEN "q1" ELSE "read"]
    /\ UNCHANGED <<db, cache, queue, hist>>
    /\ ConcRest

\* findOne: await this.tasksRepository.findOne({where: {id}}); NotFound if none
ConcDbRead(p) ==
    /\ resp[p].pc = "read"
    /\ resp' = [resp EXCEPT ![p] =
           IF Exists(db, resp[p].id)
           THEN [@ EXCEPT !.task = db[resp[p].id], !.pc = "set"]
           ELSE [@ EXCEPT !.err = "NotFound", !.pc = "done"]]
    /\ UNCHANGED <<db, cache, queue, hist>>
    /\ ConcRest

\* findOne: await this.cacheService.set(cacheKey, task, 600);
\* getStats: await this.cacheService.set(cacheKey, stats, 120)
ConcCacheSet(p) ==
    /\ resp[p].pc = "set"
    /\ LET r == resp[p] IN
        /\ cache' = IF r.op = "getStats"
                    THEN CacheSet(cache, StatsKey, r.stats, StatsTtl)
                    ELSE CacheSet(cache, TaskKey(r.id), r.task, TaskTtl)
        /\ resp' = [resp EXCEPT ![p].pc = AfterFindOne(r.op)]
    /\ UNCHANGED <<db, queue, hist>>
    /\ ConcRest

\* history: the requests that are reading the statistics while the table changes
MarkDirty(rs, p) ==
    [q \in Procs |-> IF q # p /\ rs[q].pc \in {"q2", "q3"}
                     THEN [rs[q] EXCEPT !.dirty = TRUE] ELSE rs[q]]

\* a save that would refuse a row read before somebody else wrote it
ConcSaveVersioned(p) ==
    /\ resp[p].pc = "save"
    /\ LET r == resp[p]
           isStale == db[r.id] # DbRow(r.task) IN
       IF isStale
       THEN /\ resp' = [resp EXCEPT ![p].err = "VersionConflict", ![p].stale = TRUE,
                                    ![p].pc = "done"]
            /\ UNCHANGED <<db, hist>>
       ELSE LET task == ApplyUpdate(r.task, r.dto) IN
            /\ db' = DbSave(db, task)
            /\ hist' = [hist EXCEPT !.writes = Append(@, [p |-> p, row |-> DbRow(task)])]
            /\ resp' = MarkDirty([resp EXCEPT ![p].task = DbRow(task),
                                              ![p].pc = IF r.op = "update"
                                                        THEN IF r.task.status # task.status
                                                             THEN "add" ELSE "inval"
                                                        ELSE "done"], p)
    /\ UNCHANGED <<cache, queue>>
    /\ ConcRest
\* update: the fields of the request are put on the task that findOne returned,
\* then await this.tasksRepository.save(task); updateStatus: task.status =
\* status, then save
ConcSave(p) ==
    /\ resp[p].pc = "save"
    /\ LET r == resp[p]
           task == ApplyUpdate(r.task, r.dto) IN
        /\ db' = DbSave(db, task)
        /\ hist' = [hist EXCEPT !.writes = Append(@, [p |-> p, row |-> DbRow(task)])]
        /\ resp' = MarkDirty([resp EXCEPT ![p].task = DbRow(task),
                                          ![p].stale = (db[r.id] # DbRow(r.task)),
                                          ![p].pc = IF r.op = "update"
                                                    THEN IF r.task.status # task.status
                                                         THEN "add" ELSE "inval"
                                                    ELSE "done"], p)
    /\ UNCHANGED <<cache, queue>>
    /\ ConcRest

\* update: await this.taskQueue.add('task-status-update', {taskId, status})
ConcQueueAdd(p) ==
    /\ resp[p].pc = "add"
    /\ queue' = QueueAdd(queue, "task-status-update", StatusJob(resp[p].task), NoJobOpts)
    /\ resp' = [resp EXCEPT ![p].pc = "inval"]
    /\ UNCHANGED <<db, cache, hist>>
    /\ ConcRest

\* remove: await this.tasksRepository.remove(task)
ConcRemove(p) ==
    /\ resp[p].pc = "remove"
    /\ db' = DbRemove(db, resp[p].id)
    /\ hist' = [hist EXCEPT !.writes = Append(@, [p |-> p, row |-> NoTask])]
    /\ resp' = MarkDirty([resp EXCEPT ![p].pc = "inval"], p)
    /\ UNCHANGED <<cache, queue>>
    /\ ConcRest

\* update, remove: await this.cacheService.invalidateTaskCache(id, task.userId)
ConcInvalidate(p) ==
    /\ resp[p].pc = "inval"
    /\ cache' = InvalidateTaskCache(cache, resp[p].id, resp[p].task.userId)
    /\ resp' = [resp EXCEPT ![p].pc = "done"]
    /\ hist' = IF resp[p].op = "remove"
               THEN [hist EXCEPT !.deleted = @ \cup {resp[p].id}] ELSE hist
    /\ UNCHANGED <<db, queue>>
    /\ ConcRest

\* getStats: the GROUP BY status query
ConcStatusStats(p) ==
    /\ resp[p].pc = "q1"
    /\ LET q == StatsQuery(db) IN
       resp' = [resp EXCEPT ![p].stats = [@ EXCEPT !.completed = q.completed,
                                                   !.inProgress = q.inProgress,
                                                   !.pending = q.pending],
                            ![p].pc = "q2"]
    /\ UNCHANGED <<db, cache, queue, hist>>
    /\ ConcRest

\* getStats: the GROUP BY priority query
ConcPriorityStats(p) ==
    /\ resp[p].pc = "q2"
    /\ resp' = [resp EXCEPT ![p].stats.highPriority = StatsQuery(db).highPriority,
                            ![p].pc = "q3"]
    /\ UNCHANGED <<db, cache, queue, hist>>
    /\ ConcRest

\* getStats: await this.tasksRepository.count()
ConcCount(p) ==
    /\ resp[p].pc = "q3"
    /\ resp' = [resp EXCEPT ![p].stats.total = StatsQuery(db).total, ![p].pc = "set"]
    /\ UNCHANGED <<db, cache, queue, hist>>
    /\ ConcRest

InitConc ==
    /\ db = SeedTasks
    /\ dbUp = TRUE
    /\ kvUp = TRUE
    /\ cache = EmptyCache
    /\ queue = <<>>
    /\ clock = 60
    /\ resp = [p \in Procs |-> ConcIdle]
    /\ hist = [calls |-> 0, begun |-> {}, writes |-> <<>>, deleted |-> {}]
    /\ QuietRL

NextConc ==
    \/ \E p \in Procs, req \in ConcRequests : ConcBegin(p, req)
    \/ \E p \in Procs : ConcCacheGet(p)
    \/ \E p \in Procs : ConcDbRead(p)
    \/ \E p \in Procs : ConcCacheSet(p)
    \/ \E p \in Procs : ConcSave(p)
    \/ \E p \in Procs : ConcQueueAdd(p)
    \/ \E p \in Procs : ConcRemove(p)
    \/ \E p \in Procs : ConcInvalidate(p)
    \/ \E p \in Procs : ConcStatusStats(p)
    \/ \E p \in Procs : ConcPriorityStats(p)
    \/ \E p \in Procs : ConcCount(p)

SpecConc == InitConc /\ [][NextConc]_vars

(***************************************************************************)
(*                     RATE LIMITER: CLAIMS C1-C3                          *)
(***************************************************************************)

\* C1: for one identity, the k-th request whose increment falls inside one
\* window (arrival = k, counted since the counter key last came into being) is
\* allowed when k <= 100 and rejected when k > 100.
ThmC1_FirstLAllowedThenRejected ==
    \A c \in Callers :
        caller[c].pc = "done" => (caller[c].allowed <=> caller[c].arrival <= 100)

\* C1 witness: the 101st request of a window has been decided (and rejected)
\* after the 100th was allowed.
WitC1_Request101Rejected ==
    \E c \in Callers :
        /\ caller[c].pc = "done"
        /\ caller[c].arrival = 101
        /\ ~caller[c].allowed
        /\ win[caller[c].key].rets = 101

\* C2: an increment that finds no counter (the first ever, or the first after
\* the window elapsed) returns totalHits = 1 and is accepted; every returned
\* totalHits counts only the increments of its own window; an expiry, when it is
\* put on a counter, is the full window length, and never more remains.
C2_FirstOfWindow ==
    \A c \in Callers :
        caller[c].pc = "done" =>
            /\ caller[c].ret.totalHits = caller[c].arrival
            /\ caller[c].created =>
                  /\ caller[c].ret.totalHits = 1
                  /\ caller[c].allowed
                  /\ caller[c].results[2] = -1 => caller[c].ret.timeToExpire = 60000

C2_ExpiryIsWindow ==
    \A k \in Identities :
        /\ throttle[k].pttl <= 60000
        /\ (throttle[k].pttl = -1 /\ throttle'[k].pttl > 0) => throttle'[k].pttl = 60000
        /\ throttle'[k].pttl = -2 => throttle'[k].val = 0

ThmC2_WindowReset == [](C2_FirstOfWindow) /\ [][C2_ExpiryIsWindow]_vars

\* C2 witness: a counter was used, its window elapsed, and the next increment
\* has returned 1 with a full window ahead.
WitC2_RestartedAtOne ==
    \E c \in Callers :
        /\ caller[c].pc = "done"
        /\ caller[c].created
        /\ caller[c].ret = [totalHits |-> 1, timeToExpire |-> 60000]
        /\ throttle[caller[c].key] = [val |-> 1, pttl |-> 60000]
        /\ \E d \in Callers \ {c} :
              /\ caller[d].pc = "done"
              /\ caller[d].key = caller[c].key
              /\ ~caller[d].inWin
              /\ caller[d].ret.totalHits = 2

\* the strict reading of C2's return value, for comparison: the creating call
\* always reports the full window as timeToExpire
C2_StrictReturnedExpiry ==
    \A c \in Callers :
        (caller[c].pc = "done" /\ caller[c].created) => caller[c].ret.timeToExpire = 60000

\* C3: the increments of one window return distinct values, and once none is
\* in flight the values returned are exactly 1..M for the M increments made; the
\* counter equals the number of increments (none lost).
InFlight(k) ==
    {c \in Callers : caller[c].key = k /\ caller[c].inWin /\ caller[c].pc \notin {"idle", "done"}}

ThmC3_DistinctConsecutive ==
    \A k \in Identities :
        /\ throttle[k].val = win[k].hits
        /\ Cardinality(win[k].vals) = win[k].rets
        /\ win[k].vals \subseteq 1..win[k].hits
        /\ InFlight(k) = {} => win[k].vals = 1..win[k].hits
        /\ \A c, d \in Callers :
              (c # d /\ caller[c].key = k /\ caller[d].key = k
                 /\ caller[c].inWin /\ caller[d].inWin
                 /\ caller[c].pc = "done" /\ caller[d].pc = "done")
              => caller[c].ret.totalHits # caller[d].ret.totalHits

\* C3 witness: two increments of one identity overlapped (both had done INCR
\* before either returned) and both have returned, with values 1 and 2.
WitC3_TwoConcurrentReturned ==
    \E c, d \in Callers :
        /\ c # d
        /\ caller[c].key = caller[d].key
        /\ caller[c].pc = "done" /\ caller[d].pc = "done"
        /\ caller[c].inWin /\ caller[d].inWin
        /\ caller[c].overlapped /\ caller[d].overlapped
        /\ {caller[c].ret.totalHits, caller[d].ret.totalHits} = {1, 2}

(***************************************************************************)
(*                       JOB QUEUE: CLAIMS C4-C5                           *)
(***************************************************************************)

RetryJobs == {j \in DOMAIN queue : queue[j].opts.attempts = 3}

\* C4: a job with 3 attempts is never run more than 3 times; while its handler
\* has thrown on every attempt it is not completed, and it is Failed exactly when
\* it has been run 3 times; a Failed job is never touched again.
C4_ThreeRunsThenFailed ==
    \A j \in RetryJobs :
        /\ queue[j].runs <= 3
        /\ queue[j].state = "failed" => (queue[j].runs = 3 /\ queue[j].handlerThrows = 3)
        /\ queue[j].handlerThrows = queue[j].runs =>
              /\ queue[j].state # "completed"
              /\ queue[j].runs = 3 <=> queue[j].state = "failed"

C4_FailedIsTerminal ==
    \A j \in DOMAIN queue : queue[j].state = "failed" => queue'[j] = queue[j]

C5Schedule == <<2000, 4000>>

Mutations == {"create", "update", "remove", "batchProcess"}
CompletedMutation == resp.op \in Mutations /\ resp.err = "" /\ db # hist.db

\* C6: list/stat invalidation. When a task mutation (create, update, remove,
\* batchProcess) has completed, no cached list result and no cached stats result
\* is left in the cache, so the next findAll or getStats is computed from the
\* datastore.
C6_ListStatInvalidated ==
    CompletedMutation => \A k \in DOMAIN cache : ~IsListKey(k) /\ k # StatsKey

\* C7: findOne(id) returns a task only if a task with that id currently exists
\* in the datastore, and fails with NotFound for an id that does not exist, also
\* after a remove or a batch DELETE of that id.
C7_FindOneIffExists ==
    resp.op = "findOne" =>
        /\ resp.err = "" => Exists(db, resp.id)
        /\ ~Exists(db, resp.id) => resp.err = "NotFound"

\* C8: batch result. batchProcess over n ids reports processed = n, one result
\* per input id in input order, successful + failed = n; an id whose task
\* exists when it is processed yields success, and an id whose task does not
\* exist yields a failure record naming it with a 'not found' error.
C8_BatchResult ==
    resp.op = "batchProcess" =>
        LET n == Len(resp.ids)
            r == resp.body.results IN
        /\ resp.body.processed = n
        /\ Len(r) = n
        /\ resp.body.successful + resp.body.failed = n
        /\ \A i \in 1..n :
              /\ r[i].taskId = resp.ids[i]
              /\ resp.existed[i] => r[i].success
              /\ ~resp.existed[i] => ~r[i].success /\ r[i].error = "NotFound"

InBatch(id) == \E i \in DOMAIN resp.ids : resp.ids[i] = id

C10Selected ==
    {id \in TaskIds : /\ Exists(hist.db, id)
                      /\ hist.db[id].status = "PENDING"
                      /\ hist.db[id].dueDate.type = "Date"
                      /\ hist.db[id].dueDate.t < resp.now}
C10NewJobs == {j \in DOMAIN queue : j > hist.queueLen}

\* C10: overdue scan selection. One run of checkOverdueTasks issues the add of
\* an 'overdue-tasks-notification' job for exactly the tasks whose due date is
\* before the scan time and whose status is PENDING, once per task; each add
\* the queue accepts puts one such job, carrying the task's id, on the queue;
\* tasks with a future due date or another status get no job, and a run that
\* finds none adds nothing.
ThmC10_OverdueSelection ==
    resp.op = "checkOverdueTasks" =>
        /\ {resp.attempted[i] : i \in DOMAIN resp.attempted} = C10Selected
        /\ Len(resp.attempted) = Cardinality(C10Selected)
        /\ Cardinality(C10NewJobs) = Cardinality(C10Selected \ resp.fails)
        /\ {queue[j].data.taskId : j \in C10NewJobs} = C10Selected \ resp.fails
        /\ \A j \in C10NewJobs :
              /\ queue[j].name = "overdue-tasks-notification"
              /\ queue[j].data.userId = hist.db[queue[j].data.taskId].userId
        /\ C10Selected = {} => Len(queue) = hist.queueLen

\* a scan that put a job on the queue while a past-due task that is not PENDING
\* and a PENDING task due in the future were in the datastore
WitC10_OnlyPastDuePending ==
    /\ resp.op = "checkOverdueTasks"
    /\ C10NewJobs # {}
    /\ \E id \in TaskIds \ C10Selected :
          /\ Exists(hist.db, id)
          /\ hist.db[id].status # "PENDING"
          /\ hist.db[id].dueDate.type = "Date" /\ hist.db[id].dueDate.t < resp.now
    /\ \E id \in TaskIds \ C10Selected :
          /\ Exists(hist.db, id)
          /\ hist.db[id].status = "PENDING"
          /\ hist.db[id].dueDate.type = "Date" /\ hist.db[id].dueDate.t >= resp.now

(***************************************************************************)
(*                          CLAIMS C11 - C20                               *)
(***************************************************************************)

\* C11: overdue scan failure isolation. Whatever adds the queue rejects during
\* a run of checkOverdueTasks, the run does not throw, it issues the add for
\* every overdue task it found, in the order found, and successCount +
\* failureCount is the number found, failureCount counting the rejected adds.
ThmC11_ScanFailureIsolation ==
    resp.op = "checkOverdueTasks" =>
        /\ resp.err = ""
        /\ Len(resp.attempted) = resp.found
        /\ {resp.attempted[i] : i \in DOMAIN resp.attempted} = C10Selected
        /\ resp.successCount + resp.failureCount = resp.found
        /\ resp.failureCount = Cardinality(C10Selected \cap resp.fails)
        /\ Len(queue) = hist.queueLen + resp.successCount

\* a run that found two overdue tasks, had the add of the first rejected and
\* put the job of the second on the queue
WitC11_RejectedThenAccepted ==
    /\ resp.op = "checkOverdueTasks"
    /\ resp.found = 2
    /\ resp.attempted[1] \in resp.fails
    /\ resp.attempted[2] \notin resp.fails
    /\ resp.failureCount = 1 /\ resp.successCount = 1
    /\ Len(queue) = hist.queueLen + 1

\* C12: cache key derivation is order-independent. For a prefix and a
\* parameter mapping, generateCacheKey returns the same key whatever the order
\* the mapping's entries were written in; the key lists the names in sorted
\* order.
ThmC12_KeyOrderIndependent ==
    resp.op = "generateCacheKey" =>
        /\ resp.key = resp.otherKey
        /\ \A i \in 1..Len(resp.params) - 1 :
              \E a, b \in DOMAIN ParamOrder :
                  /\ a < b
                  /\ resp.key[Len(resp.prefix) + 2 * i - 1] = ParamOrder[a]
                  /\ resp.key[Len(resp.prefix) + 2 * i + 1] = ParamOrder[b]

\* the same three entries given in two different orders, neither of them sorted
WitC12_TwoOrders ==
    /\ resp.op = "generateCacheKey"
    /\ Len(resp.params) = 3
    /\ resp.params # resp.other
    /\ resp.params[1][1] = "status" /\ resp.other[1][1] = "page"
    /\ resp.key = resp.otherKey

C13Written == hist.written[resp.key]

\* C13: cache round-trip and expiry. A get(k) that follows set(k, v, ttl)
\* before the TTL has elapsed, with no delete in between, returns a value equal
\* to v; a get(k) after the TTL has elapsed returns absent (null).
C13_RoundTripAndExpiry ==
    resp.op = "get" /\ C13Written # NotWritten =>
        IF C13Written.age < C13Written.ttl
        THEN resp.value = C13Written.v
        ELSE resp.value = Null

\* what does hold: the value comes back as JSON.parse(JSON.stringify(v)), and
\* nothing comes back once the TTL has elapsed
C13_RoundTripUpToJson ==
    resp.op = "get" /\ C13Written # NotWritten =>
        IF C13Written.age < C13Written.ttl
        THEN resp.value = JsonRoundTrip(C13Written.v)
        ELSE resp.value = Null

\* the request the last response answers was made while the cache's Redis
\* did not answer
C14Outage == resp.op # "none" /\ hist.ops > 0 /\ ~hist.kv

\* C14: the cache is best-effort. A request made while the key-value store
\* fails does not fail because of it: findOne, findAll and getStats answer from
\* the datastore as on a miss, and create, update, remove and batchProcess fail
\* only for the reasons they fail for with a working cache (unknown user, no
\* such task, rejected enqueue).
ThmC14_CacheBestEffort ==
    C14Outage =>
        /\ resp.op = "findOne" =>
              /\ resp.err = (IF Exists(hist.db, resp.id) THEN "" ELSE "NotFound")
              /\ resp.body = hist.db[resp.id]
              /\ ~resp.hit
        /\ resp.op = "findAll" =>
              resp.err = "" /\ ~resp.hit /\ resp.body = ListQuery(hist.db, resp.filter)
        /\ resp.op = "getStats" =>
              resp.err = "" /\ ~resp.hit /\ resp.body = StatsQuery(hist.db)
        /\ resp.op = "create" =>
              /\ resp.err \in {"", "BadRequest", "QueueError"}
              /\ resp.err = "BadRequest" <=> resp.dto.userId \notin Users
        /\ resp.op \in {"update", "remove"} =>
              /\ resp.err \in {"", "NotFound", "QueueError"}
              /\ resp.err = "NotFound" <=> ~Exists(hist.db, resp.id)
        /\ resp.op = "remove" /\ resp.err = "" => ~Exists(db, resp.id)
        /\ resp.op = "update" /\ resp.err = "" => resp.body = db[resp.id]
        /\ resp.op = "batchProcess" => resp.err = ""

\* a findOne made during the outage for a task whose cached copy is older than
\* its row: the answer is the row
WitC14_ReadFromDatastore ==
    /\ C14Outage
    /\ resp.op = "findOne"
    /\ resp.err = ""
    /\ TaskKey(resp.id) \in DOMAIN cache
    /\ JsonRoundTrip(db[resp.id]) # cache[TaskKey(resp.id)].val
    /\ resp.body = db[resp.id]

\* C15: enqueue independence. A create for a known user and an update of a task
\* that was found succeed for their caller and leave the written task in the
\* datastore, whether or not the queue accepts the status-change job.
C15_EnqueueIndependence ==
    /\ resp.op = "create" /\ resp.dto.userId \in Users =>
          /\ resp.err = ""
          /\ \E id \in TaskIds : ~Exists(hist.db, id) /\ Exists(db, id)
    /\ resp.op = "update" /\ resp.err # "NotFound" =>
          /\ resp.err = ""
          /\ Exists(db, resp.id)

\* the half that holds: the task written before the rejected add stays written
C15_WriteStays ==
    resp.op = "create" /\ resp.err = "QueueError" =>
        \E id \in TaskIds : ~Exists(hist.db, id) /\ Exists(db, id)

\* C16: rate-limit store failures are never swallowed. An increment whose
\* Redis commands failed ends by raising an error to its caller; it never ends
\* with a returned {totalHits, timeToExpire}.
C16_FailureRaised ==
    \A c \in Callers :
        caller[c].failed /\ caller[c].pc = "done" => caller[c].threw

\* the part that holds: a rejected pexpire leaves increment as an error
C16_PexpireFailureRaised ==
    \A c \in Callers :
        caller[c].failed /\ caller[c].results[1] # Undefined /\ caller[c].pc = "done"
            => caller[c].threw /\ ~caller[c].allowed

Rejected(c) == caller[c].pc = "done" /\ ~caller[c].threw /\ ~caller[c].allowed

\* C17: throttle response headers. Every rejected request carries
\* X-RateLimit-Limit equal to the configured limit, X-RateLimit-Remaining 0,
\* and Retry-After equal to the seconds left until the identity's window
\* resets (the expiry the increment reported, in whole seconds).
C17_ThrottleHeaders ==
    \A c \in Callers :
        Rejected(c) =>
            /\ caller[c].headers.limit = ToString(100)
            /\ caller[c].headers.remaining = ToString(0)
            /\ caller[c].headers.retryAfter =
                   ToString((caller[c].ret.timeToExpire + 999) \div 1000)

\* the part that holds: the limit and remaining headers
C17_LimitAndRemaining ==
    \A c \in Callers :
        Rejected(c) =>
            /\ caller[c].headers.limit = ToString(100)
            /\ caller[c].headers.remaining = ToString(0)

\* C18: rate-limit identity. getTracker returns 'user:<id>' for a request with
\* an authenticated user id, otherwise the request's source address (req.ip,
\* else the connection's remote address), otherwise 'unknown'; two requests of
\* the same authenticated user get the same key whatever their addresses and
\* the instance handling them.
ThmC18_TrackerIdentity ==
    resp.op = "getTracker" =>
        LET r == resp.req IN
        /\ r.userId = "u1" => resp.tracker = "user:u1"
        /\ r.userId = "u2" => resp.tracker = "user:u2"
        /\ r.userId = "" /\ r.ip # "" => resp.tracker = r.ip
        /\ r.userId = "" /\ r.ip = "" /\ r.remoteAddress # "" =>
              resp.tracker = r.remoteAddress
        /\ r.userId = "" /\ r.ip = "" /\ r.remoteAddress = "" => resp.tracker = "unknown"
        /\ r.userId # "" /\ r.userId = resp.other.userId =>
              resp.tracker = resp.otherTracker

\* one user's requests from two addresses on two instances, one key
WitC18_SameUserTwoAddresses ==
    /\ resp.op = "getTracker"
    /\ resp.req.userId = "u1" /\ resp.other.userId = "u1"
    /\ resp.req.ip # "" /\ resp.other.ip # "" /\ resp.req.ip # resp.other.ip
    /\ resp.req.instance # resp.other.instance
    /\ resp.tracker = "user:u1" /\ resp.otherTracker = "user:u1"

\* the jobs process() answers without running a handler to its end: a name it
\* has no case for, a status update without its taskId or status
NonFatal(job) ==
    \/ job.name \notin {"task-status-update", "overdue-tasks-notification"}
    \/ job.name = "task-status-update" /\ (job.data.taskId = "" \/ job.data.status = "")

C19_AnsweredNotRetried ==
    \A j \in DOMAIN queue :
        NonFatal(queue[j]) =>
            /\ queue[j].handlerThrows = 0
            /\ queue[j].attemptsMade = 0
            /\ queue[j].runs <= 1
            /\ queue[j].state \in {"waiting", "active", "completed"}
            /\ queue[j].state = "completed" <=> queue[j].runs = 1
            /\ queue[j].state = "completed" => ~queue[j].returnvalue.success

C19_NoDatastoreChange ==
    \A j \in DOMAIN queue :
        NonFatal(queue[j]) /\ j \in DOMAIN queue' /\ queue'[j].runs # queue[j].runs
            => db' = db /\ cache' = cache

\* C19: non-fatal job results. A job of an unknown type, and a
\* 'task-status-update' job whose payload lacks taskId or status, is answered
\* with a {success: false} result without throwing: it completes on its first
\* run, is never retried (even with attempts 3), and its run changes neither
\* the datastore nor the cache.
ThmC19_NonFatalResults == [](C19_AnsweredNotRetried) /\ [][C19_NoDatastoreChange]_vars

\* an unknown-type job and a status update without its status, both given three
\* attempts, both completed after one run with success false
WitC19_BothAnswered ==
    \E i, j \in DOMAIN queue :
        /\ queue[i].name = "unknown" /\ queue[j].name = "task-status-update"
        /\ queue[j].data.status = ""
        /\ queue[i].opts.attempts = 3 /\ queue[j].opts.attempts = 3
        /\ queue[i].state = "completed" /\ queue[j].state = "completed"
        /\ queue[i].runs = 1 /\ queue[j].runs = 1
        /\ ~queue[i].returnvalue.success /\ ~queue[j].returnvalue.success

C20NoUser == resp.op = "create" /\ resp.dto.userId \notin Users

C20_BadRequest ==
    C20NoUser =>
        /\ resp.err = "BadRequest"
        /\ resp.body = NoTask
        /\ db = hist.db
        /\ Len(queue) = hist.queueLen

C20_NothingTouched ==
    hist'.ops # hist.ops /\ resp'.op = "create" /\ resp'.dto.userId \notin Users
        => db' = db /\ queue' = queue /\ cache' = cache

\* C20: create with a userId that matches no user fails with BadRequest and
\* leaves all state unchanged: no task is stored, no job is enqueued and no
\* cache key is deleted.
ThmC20_UnknownUserRejected == [](C20_BadRequest) /\ [][C20_NothingTouched]_vars

\* create was refused for user u9 while tasks were stored, a job was queued and
\* list or task entries were cached: all of them are still there
WitC20_RefusedWithStateKept ==
    /\ C20NoUser /\ resp.err = "BadRequest"
    /\ DOMAIN cache # {}
    /\ Len(queue) > 0
    /\ \E id \in TaskIds : Exists(db, id)

(***************************************************************************)
(*                            CLAIMS C21-C30                               *)
(***************************************************************************)

\* the stored tasks that satisfy the status and priority a request gives
C21Matching(d, f) ==
    {id \in TaskIds : /\ d[id] # NoTask
                      /\ f.status # "" => d[id].status = f.status
                      /\ f.priority # "" => d[id].priority = f.priority}

\* C21: findAll pagination. On a cache miss, findAll(page, limit, status?,
\* priority?) returns at most limit tasks, all of which satisfy the given status
\* and priority filters, with meta.total equal to the number of tasks matching
\* the filters, meta.page and meta.limit echoing the request (defaults 1 and
\* 10), and meta.totalPages = ceil(total / limit).
ThmC21_FindAllPagination ==
    (resp.op = "findAll" /\ ~resp.hit) =>
        LET f == resp.filter
            b == resp.body
            lim == IF f.limit = 0 THEN 10 ELSE f.limit
            pg == IF f.page = 0 THEN 1 ELSE f.page
            matching == C21Matching(hist.db, f) IN
        /\ Len(b.data) <= lim
        /\ \A i \in DOMAIN b.data : b.data[i].id \in matching /\ b.data[i] = hist.db[b.data[i].id]
        /\ \A i, j \in DOMAIN b.data : i # j => b.data[i].id # b.data[j].id
        /\ b.meta.total = Cardinality(matching)
        /\ b.meta.page = pg
        /\ b.meta.limit = lim
        /\ b.meta.totalPages * lim >= b.meta.total
        /\ (b.meta.totalPages - 1) * lim < b.meta.total

\* the second page of three tasks, one task a page: one task returned, three pages
WitC21_SecondPageOfThree ==
    /\ resp.op = "findAll" /\ ~resp.hit
    /\ resp.filter.page = 2 /\ resp.filter.limit = 1
    /\ Len(resp.body.data) = 1
    /\ resp.body.meta.total = 3
    /\ resp.body.meta.totalPages = 3

\* the number of stored tasks whose field has the value
C22Count(d, field, value) ==
    Cardinality({id \in TaskIds : d[id] # NoTask /\ d[id][field] = value})

C23_AttemptsBounded ==
    \A j \in DOMAIN queue :
        /\ queue[j].attemptsMade <= MaxAttempts(queue[j])
        /\ queue[j].runs <= MaxAttempts(queue[j])
        /\ queue[j].state \in {"waiting", "active", "delayed", "completed", "failed"}

C23_Transitions ==
    \A j \in DOMAIN queue :
        LET old == queue[j]
            new == queue'[j]
            h == Handler(old, db, dbUp, cache) IN
        /\ old.state \in {"completed", "failed"} => new = old
        /\ (old.state = "active" /\ new # old) =>
              \/ /\ new.state = "completed"
                 /\ ~h.threw
                 /\ new.handlerThrows = old.handlerThrows
                 /\ new.returnvalue = h.result
              \/ /\ new.state \in {"waiting", "delayed"}
                 /\ h.threw
                 /\ new.handlerThrows = old.handlerThrows + 1
                 /\ new.attemptsMade = old.attemptsMade + 1
                 /\ new.attemptsMade < MaxAttempts(old)
              \/ /\ new.state = "failed"
                 /\ h.threw
                 /\ new.handlerThrows = old.handlerThrows + 1
                 /\ new.attemptsMade = MaxAttempts(old)
        /\ (new.state \in {"completed", "failed"} /\ new.state # old.state) =>
              old.state = "active"

\* C23: job state machine. In every reachable state a job's attempts made
\* never exceed its maxAttempts (opts.attempts, 1 when not given); an Active job
\* moves only to Completed (the handler returned, and the handler's return
\* value is the job's result), back to Queued (the handler threw and attempts
\* remain) or to Failed (the handler threw and none remain); Completed and
\* Failed are never left. A thrown handler error is never made a completion.
ThmC23_JobStateMachine == [](C23_AttemptsBounded) /\ [][C23_Transitions]_vars

\* all three ways out of Active have been taken: a job went back in line after
\* a throw and then completed with its handler's result, and a job without
\* options failed on its only attempt
WitC23_RetriedCompletedAndFailed ==
    \E i, j \in DOMAIN queue :
        /\ queue[i].state = "completed" /\ queue[i].handlerThrows = 1
        /\ queue[i].runs = 2 /\ queue[i].returnvalue.success
        /\ queue[j].state = "failed" /\ queue[j].opts = NoJobOpts
        /\ queue[j].runs = 1 /\ queue[j].attemptsMade = 1

Terminal(j) == j \in DOMAIN queue /\ queue[j].state \in {"completed", "failed"}

\* C24: job liveness. Under fair scheduling of the worker, every enqueued job
\* eventually reaches a terminal state (Completed or Failed); a failing handler
\* never stops the consumer from picking up and finishing the other queued
\* jobs: a job in the queue beside a failed one still becomes terminal.
ThmC24_JobLiveness ==
    \A j \in 1..MaxJobs :
        /\ (j \in DOMAIN queue) ~> Terminal(j)
        /\ (j \in DOMAIN queue /\ \E i \in DOMAIN queue : queue[i].state = "failed")
              ~> Terminal(j)

\* the first job failed after its handler threw on each of three runs, and the
\* job added behind it was still run and completed
WitC24_FinishedBesideFailed ==
    /\ Len(queue) = 2
    /\ queue[1].state = "failed" /\ queue[1].handlerThrows = 3
    /\ queue[2].state = "completed" /\ queue[2].runs >= 1
    /\ queue[2].returnvalue.success

\* the tasks the last completed request changed or deleted
C25Changed == {id \in TaskIds : db[id] # hist.db[id] /\ hist.db[id] # NoTask}

\* C25: single-task cache coherence (sequential). When an operation that
\* changes or deletes task id has completed (update, remove, batch COMPLETE,
\* batch DELETE), the cache holds no entry for 'tasks:<id>', so the next
\* findOne(id) reads the datastore and returns the task's current state.
C25_TaskKeyInvalidated ==
    (resp.op \in {"update", "remove", "batchProcess"} /\ resp.err = "") =>
        \A id \in C25Changed : TaskKey(id) \notin DOMAIN cache

\* the part of C25 that update and remove keep: both end with
\* invalidateTaskCache(id, userId)
C25_UpdateRemoveInvalidate ==
    (resp.op \in {"update", "remove"} /\ resp.err = "") =>
        TaskKey(resp.id) \notin DOMAIN cache

\* a caller that read 'no TTL' (PTTL = -1) and is about to set the expiry
C26ObservedNoTtl(c) == caller[c].pc = "pexpire" /\ caller[c].timeToExpire = -1

C26_OnlyCreatorObserves ==
    \A c \in Callers : C26ObservedNoTtl(c) => caller[c].created

\* an expiry, once set, only runs down
C26_NeverExtended ==
    \A k \in Identities :
        throttle[k].pttl > 0 =>
            throttle'[k].pttl = -2 \/ (throttle'[k].pttl > 0 /\ throttle'[k].pttl <= throttle[k].pttl)

\* C26: rate-limit expiry is set once per window. Within one window only the
\* caller whose increment created the counter observes 'no TTL' and sets the
\* expiry; an increment by any other concurrent caller never observes 'no TTL'
\* and never sets or extends the expiry, so the window ends exactly one window
\* length after it was first set.
C26_ExpirySetOnce == [](C26_OnlyCreatorObserves) /\ [][C26_NeverExtended]_vars

\* what holds of C26: with one caller at a time, only the increment that
\* created the counter sets the expiry
C26_SequentialSetOnce ==
    rlcfg.callers = {"c1"} => C26_OnlyCreatorObserves

\* the calls on key k that have done their INCR and not yet their PEXPIRE
C27Pending(k) ==
    {c \in Callers : caller[c].key = k /\ caller[c].pc \in {"pttl", "pexpire"}}

\* C27: bounded un-expiring window. A rate-limit counter key is without an
\* expiry only between the increment that created it and that caller's
\* follow-up expiry call, including when the follow-up expiry call fails: a key
\* without expiry always has its creating call still on the way to its PEXPIRE,
\* so every key gets an expiry and disappears and no identity stays rate
\* limited forever.
C27_BoundedUnexpiring ==
    \A k \in Identities :
        throttle[k].pttl = -1 => \E c \in C27Pending(k) : caller[c].created

\* what holds of C27 while every PEXPIRE succeeds: a key without expiry has a
\* call on the way to setting one
C27_UnexpiringHasPendingExpiry ==
    \A k \in Identities : throttle[k].pttl = -1 => C27Pending(k) # {}

\* the jobs the last request added, and what a status-change job looks like
C28Added == SubSeq(queue, hist.queueLen + 1, Len(queue))
C28StatusJob(job, id, status) ==
    job.name = "task-status-update" /\ job.data = [taskId |-> id, status |-> status]

C28_Create ==
    (resp.op = "create" /\ resp.err = "") =>
        Len(C28Added) = 1 /\ C28StatusJob(C28Added[1], resp.body.id, resp.body.status)

C28_Update ==
    (resp.op = "update" /\ resp.err = "") =>
        IF db[resp.id].status # hist.db[resp.id].status
        THEN Len(C28Added) = 1 /\ C28StatusJob(C28Added[1], resp.id, db[resp.id].status)
        ELSE C28Added = <<>>

C28_Batch ==
    resp.op = "batchProcess" =>
        IF resp.action = "COMPLETE"
        THEN LET done == SelectSeq(resp.body.results, LAMBDA r : r.success) IN
             /\ Len(C28Added) = Len(done)
             /\ \A i \in DOMAIN done : C28StatusJob(C28Added[i], done[i].taskId, "COMPLETED")
        ELSE C28Added = <<>>

C28_Remove == resp.op = "remove" => C28Added = <<>>

\* C28: status-change enqueue rule. create enqueues exactly one
\* 'task-status-update' job carrying the saved task's id and status; update
\* enqueues exactly one such job when the stored status after the update
\* differs from the status before it and none when it does not; batch COMPLETE
\* enqueues one per successfully completed item; remove and batch DELETE
\* enqueue none.
C28_StatusChangeEnqueueRule == C28_Create /\ C28_Update /\ C28_Batch /\ C28_Remove

\* what holds of C28: the rule for create, batchProcess and remove, and update
\* adding at most one job, for the task it was asked to update
C28_RuleButForUpdate ==
    /\ C28_Create /\ C28_Batch /\ C28_Remove
    /\ (resp.op = "update" /\ resp.err = "") =>
          /\ Len(C28Added) <= 1
          /\ C28Added # <<>> => C28StatusJob(C28Added[1], resp.id, db[resp.id].status)

\* the configured retry policy: 3 attempts, exponential backoff from 2000 ms
C29RetryPolicy(job) ==
    job.opts.attempts = 3 /\ job.opts.backoff = [type |-> "exponential", delay |-> 2000]

\* C29: retry policy of status-change jobs. Every 'task-status-update' job
\* enqueued by create, update or batchProcess carries the configured retry
\* policy (3 attempts, exponential backoff with base 2000 ms), so a
\* status-change job whose handler fails once on a transient error is attempted
\* again rather than failing permanently after one attempt.
C29_StatusJobsCarryRetryPolicy ==
    \A j \in DOMAIN queue :
        queue[j].name = "task-status-update" => C29RetryPolicy(queue[j])

\* what holds of C29: the jobs of the overdue scan are the ones that carry the
\* policy
C29_ScanJobsCarryRetryPolicy ==
    \A j \in DOMAIN queue :
        queue[j].name = "overdue-tasks-notification" => C29RetryPolicy(queue[j])

\* the key a read request looks up, the TTL its kind of entry is stored with,
\* and what its query returns from the datastore
C30Reads == {"findAll", "findOne", "getStats"}
C30Key(r) ==
    IF r.op = "findAll" THEN ListKey(r.filter)
    ELSE IF r.op = "findOne" THEN TaskKey(r.id)
    ELSE StatsKey
C30Ttl(key) ==
    IF IsListKey(key) THEN 300 ELSE IF key = StatsKey THEN 120 ELSE 600
C30Query(r, d) ==
    IF r.op = "findAll" THEN ListQuery(d, r.filter)
    ELSE IF r.op = "findOne" THEN d[r.id]
    ELSE StatsQuery(d)

\* one read request: a hit returns the entry and touches nothing; a miss
\* returns the datastore's answer and stores it with the TTL of its kind; a
\* lookup that fails stores nothing
C30_ReadStep ==
    (hist'.ops # hist.ops /\ resp'.op \in C30Reads) =>
        LET key == C30Key(resp') IN
        IF key \in DOMAIN cache
        THEN /\ resp'.hit /\ resp'.err = ""
             /\ resp'.body = cache[key].val
             /\ cache' = cache
        ELSE /\ ~resp'.hit
             /\ IF resp'.op = "findOne" /\ ~Exists(db, resp'.id)
                THEN resp'.err = "NotFound" /\ cache' = cache
                ELSE /\ resp'.err = ""
                     /\ resp'.body = C30Query(resp', db)
                     /\ DOMAIN cache' = DOMAIN cache \cup {key}
                     /\ cache'[key] = [val |-> JsonRoundTrip(resp'.body), ttl |-> C30Ttl(key)]
                     /\ \A k \in DOMAIN cache : cache'[k] = cache[k]

\* an entry is in the cache only while some of its TTL remains, and time only
\* takes from what remains
C30_WithinTtl ==
    \A k \in DOMAIN cache : cache[k].ttl >= 1 /\ cache[k].ttl <= C30Ttl(k)

C30_TtlRunsDown ==
    clock' # clock \/ hist'.ops = hist.ops =>
        \A k \in DOMAIN cache' : k \in DOMAIN cache /\ cache'[k].ttl <= cache[k].ttl

\* C30: cache-aside read path. findAll, findOne and getStats return the cached
\* payload without querying the datastore when their key is present in the
\* cache; on a miss they query the datastore, store the result under the key
\* with TTL 300 s (list), 600 s (single task) and 120 s (stats), and return it.
\* A failed lookup (findOne NotFound) stores nothing, and no entry is served
\* for longer than its TTL after it was stored.
ThmC30_CacheAside ==
    /\ [](C30_WithinTtl)
    /\ [][C30_ReadStep]_vars
    /\ [][C30_TtlRunsDown]_vars

\* a task read from the datastore was stored, 540 s went by, and findOne is
\* still answered from the entry, with 60 s of its 600 left
WitC30_ServedNearEndOfTtl ==
    /\ resp.op = "findOne" /\ resp.hit
    /\ TaskKey(resp.id) \in DOMAIN cache
    /\ cache[TaskKey(resp.id)].ttl = 60
    /\ resp.body = cache[TaskKey(resp.id)].val

(***************************************************************************)
(*                            CLAIMS C31-C38                               *)
(***************************************************************************)

\* the update requests whose save has been made
C31Saved == {p \in Procs : resp[p].op = "update" /\ resp[p].pc \in {"add", "inval", "done"}
                              /\ (resp[p].pc = "done" => resp[p].err = "")}

\* C31: last-writer-wins. Two update calls on the same task that run
\* concurrently both complete without error, and afterwards the stored record
\* is the one written by whichever of the two saves happened last; no update is
\* rejected for having read an older version of the record.
ThmC31_LastWriterWins ==
    /\ hist.writes # <<>> => db["t1"] = hist.writes[Len(hist.writes)].row
    /\ \A p \in Procs : resp[p].err \in {"", "NotFound"}
    /\ \A p \in Procs : resp[p].stale => resp[p].err = ""
    /\ hist.begun \subseteq {"update"} =>
          /\ \A p \in Procs : resp[p].err = ""
          /\ \A p \in C31Saved : \E i \in DOMAIN hist.writes : hist.writes[i].p = p
          /\ \A p \in Procs : resp[p].pc = "done" => p \in C31Saved

\* two updates of t1 overlapped: the title update saved first, the status
\* update saved last with the row it had read before, and both returned; the
\* stored row is the second one's, with the old title
WitC31_SecondSaveWins ==
    /\ hist.calls = 2 /\ hist.begun = {"update"}
    /\ \A p \in Procs : resp[p].pc = "done" /\ resp[p].err = ""
    /\ \E p \in Procs : resp[p].stale /\ db["t1"] = resp[p].task
    /\ db["t1"].title = "A" /\ db["t1"].status = "COMPLETED"
    /\ Len(hist.writes) = 2 /\ hist.writes[1].row.title = "B"

\* C32: deletion is permanent. Once a delete of a task has completed
\* successfully, no later operation makes a task with that id exist in the
\* datastore again; a status update of that id that runs after, or
\* concurrently with, the delete fails instead of writing the task back.
C32_DeletionPermanent ==
    \A id \in hist.deleted : ~Exists(db, id)

\* C33: update frame. An update call changes only the fields present in its
\* request; every other stored field of the task keeps the value it had in the
\* datastore immediately before the call (an update that carries no status
\* leaves the stored status unchanged, also after a batch COMPLETE).
C33_UpdateFrame ==
    (resp.op = "update" /\ resp.err # "NotFound" /\ hist.db[resp.id] # NoTask) =>
        db[resp.id] = DbRow(ApplyUpdate(hist.db[resp.id], resp.dto))

\* C34: cache-aside under interleaving. For any interleaving of a findOne(id)
\* with an update(id) or remove(id), once the calls have completed the cache
\* entry 'tasks:<id>', if present, equals the task's current datastore state:
\* a findOne that read the datastore before the write never leaves its older
\* value in the cache after the write's invalidation.
C34_CacheMatchesStoreWhenQuiet ==
    (/\ \A p \in Procs : resp[p].pc \in {"idle", "done"}
     /\ hist.begun \subseteq {"findOne", "update", "remove"}) =>
        (TaskKey("t1") \in DOMAIN cache =>
            /\ Exists(db, "t1")
            /\ CacheGet(cache, TaskKey("t1")) = JsonTask(db["t1"]))

\* the ids of a batch every item of which was reported with success = false
C35ReportedFailed ==
    {id \in TaskIds :
        /\ \E i \in DOMAIN resp.body.results : resp.body.results[i].taskId = id
        /\ \A i \in DOMAIN resp.body.results :
               resp.body.results[i].taskId = id => ~resp.body.results[i].success}

\* C35: the batch report matches the datastore. An item that batchProcess
\* reports with success = false had no datastore change applied for it: its
\* task was left exactly as it was (also when the failure is the enqueue that
\* follows the save of a COMPLETE item).
C35_FailedItemsLeftAlone ==
    resp.op = "batchProcess" =>
        \A id \in C35ReportedFailed : db[id] = hist.db[id]

\* the part of C35 that holds: an item reported failed because its task was
\* not found changed nothing, and a DELETE batch reports no other failure
C35_NotFoundItemsLeftAlone ==
    resp.op = "batchProcess" =>
        /\ \A id \in C35ReportedFailed :
               (\A i \in DOMAIN resp.body.results :
                    resp.body.results[i].taskId = id =>
                        resp.body.results[i].error = "NotFound")
               => db[id] = hist.db[id]
        /\ resp.action = "DELETE" =>
               \A i \in DOMAIN resp.body.results :
                   ~resp.body.results[i].success => resp.body.results[i].error = "NotFound"

\* the notification jobs for a task that the queue still has to finish
C36Outstanding(id) ==
    {j \in DOMAIN queue :
        /\ queue[j].name = "overdue-tasks-notification"
        /\ queue[j].data.taskId = id
        /\ queue[j].state \notin {"completed", "failed"}}

\* C36: no duplicate overdue notifications. At any time the queue holds at
\* most one not-yet-finished 'overdue-tasks-notification' job per task: a task
\* that stays overdue and pending across scan runs is not enqueued again while
\* an earlier notification job for it is still outstanding.
C36_OneOutstandingNotification ==
    \A id \in TaskIds : Cardinality(C36Outstanding(id)) <= 1

\* the part of C36 that holds: one scan run adds at most one job per task
C36_OnePerTaskPerRun ==
    resp.op = "checkOverdueTasks" =>
        \A id \in TaskIds :
            Cardinality({j \in C36Outstanding(id) : j > hist.queueLen}) <= 1

\* the counter of identity k counts the increments made for k in its current
\* window and nothing else, and a request is decided on that count alone
C37_OwnHitsOnly ==
    /\ \A k \in Identities : throttle[k].val = win[k].hits
    /\ \A c \in Callers :
           (caller[c].pc = "done" /\ caller[c].inWin) =>
               /\ caller[c].ret.totalHits <= win[caller[c].key].hits
               /\ caller[c].allowed <=> caller[c].ret.totalHits <= 100

\* a step changes the counter of k only when it is a step of a request of k,
\* or the passing of time on k's own expiry
C37_OtherCountersUntouched ==
    \A k \in Identities :
        throttle'[k] # throttle[k] =>
            \/ \E c \in Callers : caller'[c].pc # caller[c].pc /\ caller'[c].key = k
            \/ /\ \A c \in Callers : caller'[c].pc = caller[c].pc
               /\ \/ throttle'[k] = NoKey
                  \/ /\ throttle'[k].val = throttle[k].val
                     /\ 0 < throttle'[k].pttl /\ throttle'[k].pttl < throttle[k].pttl

\* getTracker never gives an authenticated request the tracker of a request
\* without a user
C37_TrackersApart ==
    \A req \in TrackerRequests, other \in TrackerRequests :
        (req.userId # "" /\ other.userId = "") => GetTracker(req) # GetTracker(other)

\* C37: rate-limit isolation. Requests of one identity never change the count
\* or the expiry of another identity's counter; whether a request of identity
\* A is allowed depends only on A's own requests in the current window; an
\* authenticated identity ('user:<id>') and an address identity never share a
\* counter key.
ThmC37_Isolation ==
    [](C37_OwnHitsOnly /\ C37_TrackersApart) /\ [][C37_OtherCountersUntouched]_vars

\* both identities have a counter, with different counts and different time
\* left, and a request of the address identity was decided on its own count
WitC37_TwoCountersSideBySide ==
    /\ throttle["user:u1"].val = 2 /\ throttle["user:u1"].pttl = 30000
    /\ throttle["10.0.0.1"].val = 1 /\ throttle["10.0.0.1"].pttl = 60000
    /\ \E c \in Callers :
           /\ caller[c].pc = "done" /\ caller[c].key = "10.0.0.1"
           /\ caller[c].ret.totalHits = 1 /\ caller[c].allowed
    /\ \E c \in Callers : caller[c].pc = "done" /\ caller[c].key = "user:u1"

\* the statistics a request holds are those of one state of the table
C38Consistent(stats) ==
    /\ stats.completed + stats.inProgress + stats.pending <= stats.total
    /\ stats.highPriority <= stats.total

\* C38: stats are internally consistent under concurrency. In every result
\* returned by getStats, also when tasks are deleted or change status while
\* it runs, completed + inProgress + pending is at most total and
\* highPriority is at most total.
C38_StatsAreOneSnapshot ==
    \A p \in Procs :
        (resp[p].op = "getStats" /\ resp[p].pc = "done") => C38Consistent(resp[p].stats)

\* the part of C38 that holds: statistics computed while nothing wrote the
\* table between the three queries are consistent
C38_ConsistentWhenUndisturbed ==
    \A p \in Procs :
        (resp[p].op = "getStats" /\ resp[p].pc \in {"set", "done"}
            /\ ~resp[p].hit /\ ~resp[p].dirty) => C38Consistent(resp[p].stats)

====
